---- MODULE Spec2Model ----
(***************************************************************************)
(* A model of the Reddit ingestion-and-ranking pipeline of                 *)
(* tradingagents/dataflows/reddit_utils.py: the merge engine of            *)
(* RedditDataDownloader.save_posts_to_jsonl, the relevance and popularity  *)
(* scorers, the analyzer and the ranker of StockPopularityAnalyzer, the     *)
(* download run of RedditDataDownloader and of scripts/                    *)
(* download_reddit_data.py, two processes that merge into one file at the  *)
(* same time, the reader fetch_top_from_category, and the page fetches of  *)
(* tradingagents/dataflows/googlenews_utils.py.                            *)
(*                                                                         *)
(* A post is a function from field names to values (a Python dict); a      *)
(* collection file is a sequence of lines; text is a tuple of characters.  *)
(* Time stamps written by the store are values of a counter (clock) that   *)
(* advances with every call; epoch times are seconds.                      *)
(***************************************************************************)
EXTENDS Integers, Sequences, FiniteSets, TLC

VARIABLES
    disk,      \* community name -> [exists, lines]: the .jsonl file of the community
    clock,     \* the value datetime.now() gives to the next save_posts_to_jsonl call
    last,      \* what the last save_posts_to_jsonl call returned and logged
    scored,    \* the last call of a scorer: its arguments, its counters, its result
    result,    \* the last call of the analyzer or the ranker: its arguments and its result
    run,       \* the download run: where it is and what it has returned so far
    news,      \* the news fetch: its requests, its worker pool and what it collected
    writers    \* the processes that merge into one file: where each is and what it holds

vars == <<disk, clock, last, scored, result, run, news, writers>>

\* no download run and no news fetch has started
NoRun == [pc |-> "none"]
NoNews == [pc |-> "none"]

\* the two processes that can call save_posts_to_jsonl for one file, neither
\* of them in a call
Writers == {"a", "b"}
NoWriters == [w \in Writers |-> [pc |-> "idle"]]

(***************************************************************************)
(* Bounds of the model.                                                    *)
(***************************************************************************)
MaxBatch == 2      \* posts in one batch handed to save_posts_to_jsonl
MaxClock == 2      \* save_posts_to_jsonl calls in one behaviour

(***************************************************************************)
(* Generic helpers on sequences.                                           *)
(***************************************************************************)
Range(s) == {s[i] : i \in 1..Len(s)}

SeqsUpTo(S, n) == UNION {[1..k -> S] : k \in 0..n}

Prefix(s, k) == [i \in 1..k |-> s[i]]

\* the permutations of a sequence, as sequences
Perms(s) ==
    {[i \in 1..Len(s) |-> s[p[i]]] :
        p \in {q \in [1..Len(s) -> 1..Len(s)] : \A i, j \in 1..Len(s) : q[i] = q[j] => i = j}}

(***************************************************************************)
(* Python dict access.                                                     *)
(***************************************************************************)
Has(d, f) == f \in DOMAIN d

\* d.get(f): the value, or None; wrapped so that None compares with any value
Get(d, f) == IF Has(d, f) THEN <<"v", d[f]>> ELSE <<"None">>

\* d[f] = v
With(d, f, v) == (f :> v) @@ d

\* a merge that keeps the stored fields where both dicts have one
OverlayKeepsStored(e, p) == e @@ p

\* e.copy(); e.update(p): the fields of p laid over those of e
Overlay(e, p) == p @@ e

(***************************************************************************)
(* Text: a str is a tuple of characters.                                   *)
(***************************************************************************)
UpperLetters == <<"A", "B", "C", "D", "E", "F", "G", "H", "I", "J", "K", "L", "M", "N", "O", "P", "Q", "R", "S", "T", "U", "V", "W", "X", "Y", "Z">>
LowerLetters == <<"a", "b", "c", "d", "e", "f", "g", "h", "i", "j", "k", "l", "m", "n", "o", "p", "q", "r", "s", "t", "u", "v", "w", "x", "y", "z">>
Digits == {"0", "1", "2", "3", "4", "5", "6", "7", "8", "9"}

LetterIndex(letters, c) ==
    IF \E i \in 1..Len(letters) : letters[i] = c
    THEN CHOOSE i \in 1..Len(letters) : letters[i] = c
    ELSE 0

\* the lower-case letter of every upper-case letter, and the reverse
LowerTable == [c \in Range(UpperLetters) |-> LowerLetters[LetterIndex(UpperLetters, c)]]
UpperTable == [c \in Range(LowerLetters) |-> UpperLetters[LetterIndex(LowerLetters, c)]]

\* str.lower() and str.upper(), character by character
LowerChar(c) == IF c \in DOMAIN LowerTable THEN LowerTable[c] ELSE c
UpperChar(c) == IF c \in DOMAIN UpperTable THEN UpperTable[c] ELSE c
Lower(t) == [i \in 1..Len(t) |-> LowerChar(t[i])]
Upper(t) == [i \in 1..Len(t) |-> UpperChar(t[i])]

\* the pattern occurs in the text at position p (1 .. Len(t) + 1)
OccursAt(pat, t, p) ==
    /\ p + Len(pat) - 1 <= Len(t)
    /\ \A i \in 1..Len(pat) : t[p + i - 1] = pat[i]

\* pat in t
Contains(t, pat) == \E p \in 1..(Len(t) + 1) : OccursAt(pat, t, p)

\* \w of the regular expressions
WordChars == Range(UpperLetters) \cup Range(LowerLetters) \cup Digits \cup {"_"}
IsWordChar(c) == c \in WordChars

\* \b before the character at position p: a word character on exactly one side
IsBoundary(t, p) ==
    LET before == p > 1 /\ p - 1 <= Len(t) /\ IsWordChar(t[p - 1])
        after == p >= 1 /\ p <= Len(t) /\ IsWordChar(t[p])
    IN  before # after

\* re.search(r"\b" + re.escape(pat) + r"\b", t)
WordSearch(pat, t) ==
    \E p \in 1..(Len(t) + 1) :
        /\ OccursAt(pat, t, p)
        /\ IsBoundary(t, p)
        /\ IsBoundary(t, p + Len(pat))

\* str.split(sep), for a separator that is not empty
RECURSIVE SplitFrom(_, _, _)
SplitFrom(t, sep, piece) ==
    IF t = <<>> THEN <<piece>>
    ELSE IF OccursAt(sep, t, 1)
         THEN <<piece>> \o SplitFrom(SubSeq(t, Len(sep) + 1, Len(t)), sep, <<>>)
         ELSE SplitFrom(Tail(t), sep, Append(piece, Head(t)))

Split(t, sep) == SplitFrom(t, sep, <<>>)

\* str.strip() of blanks
RECURSIVE Strip(_)
Strip(t) ==
    IF t = <<>> THEN t
    ELSE IF Head(t) = " " THEN Strip(Tail(t))
    ELSE IF t[Len(t)] = " " THEN Strip(SubSeq(t, 1, Len(t) - 1))
    ELSE t

\* None where a str is expected (a JSON null)
NoneText == <<"None">>

Min(a, b) == IF a <= b THEN a ELSE b

\* a list of the elements of a set, in some order
RECURSIVE ListOf(_)
ListOf(S) == IF S = {} THEN <<>> ELSE LET x == CHOOSE y \in S : TRUE IN <<x>> \o ListOf(S \ {x})

\* d.get(f, default)
GetOr(d, f, default) == IF Has(d, f) THEN d[f] ELSE default

(***************************************************************************)
(* Collection files: one JSON document per line.                           *)
(*   obj    a JSON object (the post it holds is rec)                       *)
(*   bad    not JSON: json.loads raises JSONDecodeError                    *)
(*   scalar JSON, but a number, true, false or null                        *)
(***************************************************************************)
ObjLine(r) == [kind |-> "obj", rec |-> r]
BadLine == [kind |-> "bad", rec |-> <<>>]
ScalarLine == [kind |-> "scalar", rec |-> <<>>]

\* json.dump(post_data, f); f.write("\n")
JsonDump(r) == ObjLine(r)

Absent == [exists |-> FALSE, lines |-> <<>>]
FileOf(ls) == [exists |-> TRUE, lines |-> ls]

\* the posts of the object lines of a file that carry an id, in file order
StoredPosts(f) == SelectSeq(f.lines, LAMBDA l : l.kind = "obj" /\ Has(l.rec, "id"))
IdsOfLines(ls) == {ls[i].rec["id"] : i \in {j \in 1..Len(ls) : ls[j].kind = "obj" /\ Has(ls[j].rec, "id")}}
IdsOf(f) == IdsOfLines(f.lines)

(***************************************************************************)
(* existing_posts: a dict keyed by id, which keeps insertion order; here a *)
(* sequence of posts with pairwise distinct ids.                           *)
(***************************************************************************)
KeyIndex(existing, id) ==
    IF \E i \in 1..Len(existing) : existing[i]["id"] = id
    THEN CHOOSE i \in 1..Len(existing) : existing[i]["id"] = id
    ELSE 0

\* a list instead of a dict: every put appends
DictPutAppends(existing, id, post) == Append(existing, post)

\* existing_posts[id] = post
DictPut(existing, id, post) ==
    IF KeyIndex(existing, id) = 0
    THEN Append(existing, post)
    ELSE [existing EXCEPT ![KeyIndex(existing, id)] = post]

(***************************************************************************)
(* RedditDataDownloader.save_posts_to_jsonl                                *)
(***************************************************************************)
\* key_fields: the fields whose change makes a stored post an updated post
KeyFields == {"title", "selftext", "score", "ups", "num_comments", "upvote_ratio"}

\* the loop over the lines of the existing file.  A line that is not JSON is
\* skipped; an object with an id is put in the dict; `"id" in post_data` on a
\* number, true, false or null raises TypeError, which the handler around the
\* whole read catches: the read stops there with what was loaded so far.
RECURSIVE LoadLines(_, _)
LoadLines(lines, existing) ==
    IF lines = <<>> THEN existing
    ELSE LET l == Head(lines) IN
         IF l.kind = "bad" THEN LoadLines(Tail(lines), existing)
         ELSE IF l.kind = "scalar" THEN existing
         ELSE IF Has(l.rec, "id")
              THEN LoadLines(Tail(lines), DictPut(existing, l.rec["id"], l.rec))
              ELSE LoadLines(Tail(lines), existing)

\* existing_posts after the read: empty when the file does not exist
LoadExisting(f) == IF f.exists THEN LoadLines(f.lines, <<>>) ELSE <<>>

\* a comparison of whole dicts instead of the key fields
HasChangesAnyField(post, existing_post) ==
    \E f \in (DOMAIN post) \cup (DOMAIN existing_post) : Get(post, f) # Get(existing_post, f)

\* (variant: url is one of the compared fields)
HasChangesOrUrl(post, existing_post) ==
    \E f \in KeyFields \cup {"url"} : Get(post, f) # Get(existing_post, f)

\* has_changes: some key field of the incoming post differs from the stored one
HasChanges(post, existing_post) ==
    \E f \in KeyFields : Get(post, f) # Get(existing_post, f)

\* the state of the merge loop before any post is handled
MergeStart(existing) ==
    [existing |-> existing, new_posts |-> 0, updated_posts |-> 0,
     skipped_posts |-> 0, batch |-> <<>>]

\* one iteration of the loop over the incoming posts; batch collects the
\* caller's dicts as the loop leaves them (a new post is stamped in place)
MergeOne(st, post, now) ==
    IF ~Has(post, "id") THEN [st EXCEPT !.batch = Append(@, post)]
    ELSE LET i == KeyIndex(st.existing, post["id"]) IN
         IF i # 0
         THEN IF HasChanges(post, st.existing[i])
              THEN [st EXCEPT
                      !.existing[i] = With(Overlay(@, post), "last_updated", now),
                      !.updated_posts = @ + 1,
                      !.batch = Append(@, post)]
              ELSE [st EXCEPT !.skipped_posts = @ + 1, !.batch = Append(@, post)]
         ELSE LET stamped == With(post, "first_saved", now) IN
              [st EXCEPT
                 !.existing = Append(@, stamped),
                 !.new_posts = @ + 1,
                 !.batch = Append(@, stamped)]

\* a loop that ends at the first post it handled as an update
RECURSIVE MergeLoopStopsAtUpdate(_, _, _)
MergeLoopStopsAtUpdate(st, posts, now) ==
    IF posts = <<>> \/ st.updated_posts > 0 THEN st
    ELSE MergeLoopStopsAtUpdate(MergeOne(st, Head(posts), now), Tail(posts), now)

RECURSIVE MergeLoop(_, _, _)
MergeLoop(st, posts, now) ==
    IF posts = <<>> THEN st
    ELSE MergeLoop(MergeOne(st, Head(posts), now), Tail(posts), now)

\* the read of the file followed by the loop over the incoming posts
MergePosts(f, posts, now) == MergeLoop(MergeStart(LoadExisting(f)), posts, now)

\* the lines the final loop writes: one per value of existing_posts
LinesOf(existing) == [i \in 1..Len(existing) |-> JsonDump(existing[i])]

(***************************************************************************)
(* The inputs of the store: the community whose file is merged into, the   *)
(* posts a download can deliver, and what the file can hold beforehand.    *)
(***************************************************************************)
STOCK_SUBREDDITS ==
    <<"wallstreetbets", "stocks", "investing", "StockMarket", "SecurityAnalysis",
      "ValueInvesting">>

\* the communities with a file path in the model: the configured ones and one
\* that has no configured weight
Communities == Range(STOCK_SUBREDDITS) \cup {"news"}
StorePath == "stocks"

PostInputs ==
    {[id |-> "p1", score |-> 1, url |-> "u1"],
     [id |-> "p1", score |-> 2, url |-> "u1"],
     [id |-> "p1", score |-> 1, url |-> "u2"],
     [id |-> "p2", score |-> 1, url |-> "u1"]}

Batches == SeqsUpTo(PostInputs, MaxBatch)

\* posts an earlier run stored (stamp 0 is before every stamp of this run)
OldPost(id, score) == [id |-> id, score |-> score, url |-> "u1", first_saved |-> 0]

InitFiles ==
    {Absent,
     FileOf(<<>>),
     FileOf(<<ObjLine(OldPost("p1", 1))>>),
     FileOf(<<ObjLine(OldPost("p1", 1)), ObjLine(OldPost("p2", 1))>>),
     FileOf(<<ObjLine(OldPost("p1", 1)), ObjLine(OldPost("p1", 2))>>),
     FileOf(<<BadLine, ObjLine(OldPost("p1", 1))>>),
     FileOf(<<ScalarLine, ObjLine(OldPost("p1", 1))>>),
     FileOf(<<ObjLine([score |-> 1, url |-> "u1"]), ObjLine(OldPost("p2", 1))>>)}

\* last: the result of the call, the counters it logs, whether it wrote to the
\* file and, after a successful save to an absent file, the batch as it was
\* passed (first_batch) and as the call left the caller's dicts (first_held)
NoCall ==
    [op |-> "none", path |-> StorePath, ok |-> FALSE, n |-> 0,
     new_posts |-> 0, updated_posts |-> 0, skipped_posts |-> 0, now |-> 0,
     wrote |-> FALSE, first |-> FALSE, first_batch |-> <<>>, first_held |-> <<>>,
     again |-> FALSE]

\* the call repeats the call before it: the same batch (the same dicts, or
\* equal ones) for the same file, after a successful save to an absent file
Again(c, posts) ==
    /\ last.first /\ last.path = c
    /\ posts \in {last.first_batch, last.first_held}

CallRecord(c, posts, m, ok, wrote) ==
    LET first == ok /\ ~disk[c].exists IN
    [op |-> "save", path |-> c, ok |-> ok, n |-> Len(posts), wrote |-> wrote,
     new_posts |-> m.new_posts, updated_posts |-> m.updated_posts,
     skipped_posts |-> m.skipped_posts, now |-> clock,
     first |-> first,
     first_batch |-> IF first THEN posts ELSE <<>>,
     first_held |-> IF first THEN m.batch ELSE <<>>,
     again |-> Again(c, posts)]

StoreInit ==
    /\ \E f \in InitFiles : disk = [c \in Communities |-> IF c = StorePath THEN f ELSE Absent]
    /\ clock = 1
    /\ last = NoCall
    /\ scored = [op |-> "none"]
    /\ result = [op |-> "none"]
    /\ run = NoRun
    /\ news = NoNews
    /\ writers = NoWriters

\* the call runs to its end and returns True
SaveOk(c, posts) ==
    /\ clock <= MaxClock
    /\ LET m == MergePosts(disk[c], posts, clock) IN
       /\ disk' = [disk EXCEPT ![c] = FileOf(LinesOf(m.existing))]
       /\ last' = CallRecord(c, posts, m, TRUE, TRUE)
    /\ clock' = clock + 1
    /\ UNCHANGED <<scored, result, run, news, writers>>

\* file_path.parent.mkdir raises (as open(file_path, "w") raising does, it
\* leaves the file as it was): the call returns False
SaveMkdirError(c, posts) ==
    /\ clock <= MaxClock
    /\ last' = CallRecord(c, posts, MergeStart(<<>>), FALSE, FALSE)
    /\ clock' = clock + 1
    /\ UNCHANGED <<disk, scored, result, run, news, writers>>

\* a write raises after open(file_path, "w") truncated the file and k lines
\* went out: the call returns False
SaveWriteError(c, posts) ==
    /\ clock <= MaxClock
    /\ LET m == MergePosts(disk[c], posts, clock) IN
       /\ \E k \in 0..(Len(m.existing) - 1) :
            disk' = [disk EXCEPT ![c] = FileOf(Prefix(LinesOf(m.existing), k))]
       /\ last' = CallRecord(c, posts, m, FALSE, TRUE)
    /\ clock' = clock + 1
    /\ UNCHANGED <<scored, result, run, news, writers>>

\* a call with any batch a download can deliver, or with the dicts of the call before
SaveCall == \E posts \in Batches \cup {last.first_held} : SaveOk(StorePath, posts)
SaveCallMkdirError == \E posts \in Batches : SaveMkdirError(StorePath, posts)
SaveCallWriteError == \E posts \in Batches : SaveWriteError(StorePath, posts)

StoreNext ==
    \/ SaveCall
    \/ SaveCallMkdirError
    \/ SaveCallWriteError

SpecStore == StoreInit /\ [][StoreNext]_vars

(***************************************************************************)
(* Claims about the merge engine.                                          *)
(***************************************************************************)
\* every post of the batch has an id and no two posts share one
DistinctIds(posts) ==
    /\ \A i \in 1..Len(posts) : Has(posts[i], "id")
    /\ \A i, j \in 1..Len(posts) : posts[i]["id"] = posts[j]["id"] => i = j

\* no id is on two lines of the file
UniqueIds(f) ==
    \A i, j \in 1..Len(f.lines) :
        (/\ f.lines[i].kind = "obj" /\ f.lines[j].kind = "obj"
         /\ Has(f.lines[i].rec, "id") /\ Has(f.lines[j].rec, "id")
         /\ f.lines[i].rec["id"] = f.lines[j].rec["id"]) => i = j

\* a file as the store leaves it: every line a post with an id and the stamp
\* of its insertion, no id twice
StoreWritten(f) ==
    /\ f.exists
    /\ \A i \in 1..Len(f.lines) :
         /\ f.lines[i].kind = "obj"
         /\ Has(f.lines[i].rec, "id")
         /\ Has(f.lines[i].rec, "first_saved")
    /\ UniqueIds(f)

\* the post stored under an id
StoredAt(existing, id) == existing[KeyIndex(existing, id)]

\* the last post of a batch with the given id
LastWithId(posts, id) ==
    posts[CHOOSE i \in 1..Len(posts) :
            /\ posts[i]["id"] = id
            /\ \A j \in (i + 1)..Len(posts) : posts[j]["id"] # id]

\* a post without the stamps the store adds
Unstamped(r) == [f \in (DOMAIN r) \ {"first_saved", "last_updated"} |-> r[f]]

\* the id-to-record mapping of a merge result, bookkeeping stamps aside
MappingOf(existing) == {Unstamped(existing[i]) : i \in 1..Len(existing)}

\* two posts of the batch with the same id are equal
NoConflict(posts) ==
    \A i, j \in 1..Len(posts) : posts[i]["id"] = posts[j]["id"] => posts[i] = posts[j]

\* C1: a batch of N posts with distinct ids is saved to an absent file and
\* then saved again, both calls returning True: the second call counts 0 new,
\* 0 updated and N skipped posts, the file holds N posts and the second call
\* leaves every line of it as it was.
C1_IdempotentMerge ==
    [][(last'.op = "save" /\ last'.again /\ last'.ok /\ DistinctIds(last.first_batch))
        => /\ last'.new_posts = 0
           /\ last'.updated_posts = 0
           /\ last'.skipped_posts = Len(last.first_batch)
           /\ Len(disk'[StorePath].lines) = Len(last.first_batch)
           /\ disk' = disk]_vars

C1_Witness ==
    /\ last.op = "save" /\ last.again /\ last.ok
    /\ last.n = 2 /\ last.skipped_posts = 2
    /\ Cardinality(IdsOf(disk[StorePath])) = 2

\* C2: in a collection the store wrote, a post whose id is stored and which
\* comes in with another score is, after the merge, stored with the incoming
\* score and a last_updated stamp of this merge, and its first_saved stamp is
\* the one it had (the one its insertion set).
C2_UpdateDetection ==
    LET f == disk[StorePath] IN
    StoreWritten(f) =>
        \A posts \in Batches :
            LET m == MergePosts(f, posts, clock)
                stored == LoadExisting(f)
            IN  \A i \in 1..Len(posts) :
                    LET id == posts[i]["id"] IN
                    (/\ id \in IdsOf(f)
                     /\ posts[i]["score"] # StoredAt(stored, id)["score"])
                    => /\ StoredAt(m.existing, id)["score"] = LastWithId(posts, id)["score"]
                       /\ Get(StoredAt(m.existing, id), "last_updated") = <<"v", clock>>
                       /\ StoredAt(m.existing, id)["first_saved"] = StoredAt(stored, id)["first_saved"]

\* a post inserted by one call and updated by a later one is in the file
C2_Witness ==
    /\ last.op = "save" /\ last.ok /\ last.updated_posts = 1
    /\ \E i \in 1..Len(disk[StorePath].lines) :
         LET r == disk[StorePath].lines[i].rec IN
         /\ Has(r, "last_updated") /\ r["last_updated"] = last.now
         /\ r["first_saved"] > 0 /\ r["first_saved"] < last.now
         /\ r["score"] = 2

\* C3: whatever the file held and whatever the batches were, a file the store
\* has written has no id on two lines.
C3_IdUniqueness ==
    (last.op = "save" /\ last.wrote) => UniqueIds(disk[last.path])

\* a batch that repeats an id was merged into a file
C3_Witness ==
    /\ last.op = "save" /\ last.ok /\ last.n = 2
    /\ last.new_posts = 1 /\ last.updated_posts = 1
    /\ Cardinality(IdsOf(disk[StorePath])) = 1

\* C4: every call that returns True leaves in the file every id that was in
\* it before the call.
C4_CollectionOnlyGrows ==
    [][(last'.op = "save" /\ last'.ok)
        => IdsOf(disk[StorePath]) \subseteq IdsOf(disk'[StorePath])]_vars

\* C5 as claimed: for every collection and every batch, every ordering of the
\* batch gives the same id-to-record mapping, stamps aside.
C5_OrderIndependenceAnyBatch ==
    \A posts \in Batches : \A other \in Perms(posts) :
        MappingOf(MergePosts(disk[StorePath], posts, clock).existing)
            = MappingOf(MergePosts(disk[StorePath], other, clock).existing)

\* C5 amended: the same, for the batches in which two posts with the same id
\* are equal (the batches with distinct ids among them).
C5_OrderIndependence ==
    \A posts \in Batches : NoConflict(posts) =>
        \A other \in Perms(posts) :
            MappingOf(MergePosts(disk[StorePath], posts, clock).existing)
                = MappingOf(MergePosts(disk[StorePath], other, clock).existing)

\* a batch of two ids, one of them stored before with another score, was merged
C5_Witness ==
    /\ last.op = "save" /\ last.ok /\ last.n = 2
    /\ last.new_posts = 1 /\ last.updated_posts = 1
    /\ Cardinality(IdsOf(disk[StorePath])) = 2

(***************************************************************************)
(* StockPopularityAnalyzer: keywords and the two scorers.                  *)
(* Relevance is counted in tenths (0.3 is 3, 1.0 is 10).                   *)
(***************************************************************************)
\* the entries of ticker_to_company the model uses
TickerX == <<"X">>
TickerV == <<"V">>
TickerAMD == <<"A", "M", "D">>
Tickers == {TickerX, TickerV, TickerAMD}
ticker_to_company ==
    (TickerX :> <<"T", "w", "i", "t", "t", "e", "r", " ", "O", "R", " ", "X">>) @@
    (TickerV :> <<"V", "i", "s", "a">>) @@
    (TickerAMD :> <<"A", "M", "D">>)

OrSeparator == <<" ", "O", "R", " ">>

\* generate_stock_keywords: the set the list is made of
KeywordSet(ticker) ==
    {ticker, <<"$">> \o ticker, <<"$">> \o Upper(ticker), Upper(ticker), Lower(ticker)}
    \cup (IF ticker \in DOMAIN ticker_to_company
          THEN IF Contains(ticker_to_company[ticker], OrSeparator)
               THEN {Strip(n) : n \in Range(Split(ticker_to_company[ticker], OrSeparator))}
               ELSE {ticker_to_company[ticker]}
          ELSE {})

\* generate_stock_keywords: list(set(keywords))
generate_stock_keywords(ticker) == ListOf(KeywordSet(ticker))

TitleMatchTenths == 3
TitleCapTenths == 10
ContentMatchTenths == 1
ContentCapTenths == 7
RelevanceCapTenths == 10

\* what one keyword adds to title_matches and to content_matches
TitleMatchesOf(keyword_lower, title) ==
    (IF Contains(title, keyword_lower) THEN 1 ELSE 0)
    + (IF WordSearch(keyword_lower, title) THEN 2 ELSE 0)

ContentMatchesOf(keyword_lower, content) ==
    (IF Contains(content, keyword_lower) THEN 1 ELSE 0)
    + (IF WordSearch(keyword_lower, content) THEN 1 ELSE 0)

\* the body of the loop over the keywords
AddMatches(counted, keyword_lower, title, content) ==
    [title_matches |-> counted.title_matches + TitleMatchesOf(keyword_lower, title),
     content_matches |-> counted.content_matches + ContentMatchesOf(keyword_lower, content)]

\* the loop over the keywords
RECURSIVE CountMatches(_, _, _)
CountMatches(keywords, title, content) ==
    IF keywords = <<>> THEN [title_matches |-> 0, content_matches |-> 0]
    ELSE AddMatches(CountMatches(Tail(keywords), title, content), Lower(Head(keywords)),
                    title, content)

\* a relevance that adds the two parts without the final cap
RelevanceUncapped(title_matches, content_matches) ==
    Min(title_matches * TitleMatchTenths, TitleCapTenths)
    + Min(content_matches * ContentMatchTenths, ContentCapTenths)

\* min(title_score + content_score, 1.0)
RelevanceOf(title_matches, content_matches) ==
    Min(Min(title_matches * TitleMatchTenths, TitleCapTenths)
        + Min(content_matches * ContentMatchTenths, ContentCapTenths),
        RelevanceCapTenths)

\* calculate_post_relevance: raises AttributeError when title or selftext is None
RelevanceResult(counted) ==
    [raised |-> FALSE, title_matches |-> counted.title_matches,
     content_matches |-> counted.content_matches,
     value |-> RelevanceOf(counted.title_matches, counted.content_matches)]

calculate_post_relevance(post, keywords) ==
    IF GetOr(post, "title", <<>>) = NoneText \/ GetOr(post, "selftext", <<>>) = NoneText
    THEN [raised |-> TRUE, title_matches |-> 0, content_matches |-> 0, value |-> 0]
    ELSE RelevanceResult(CountMatches(keywords, Lower(GetOr(post, "title", <<>>)),
                                      Lower(GetOr(post, "selftext", <<>>))))

(***************************************************************************)
(* Popularity.  Times are seconds; ups, num_comments and score are         *)
(* integers, upvote_ratio and the subreddit weight are tenths; engagement  *)
(* plus quality is counted in twentieths.  time_decay is the fraction      *)
(* num/den.                                                                *)
(***************************************************************************)
SecondsPerHour == 3600
HoursPerDay == 24
SecondsPerDay == SecondsPerHour * HoursPerDay
DecayFloorDen == 10
DefaultRatioTenths == 5

\* a decay without the floor of 0.1
TimeDecayNoFloor(diff) ==
    IF SecondsPerDay + diff = 0
    THEN [raised |-> TRUE, num |-> 0, den |-> 1]
    ELSE [raised |-> FALSE, num |-> SecondsPerDay, den |-> SecondsPerDay + diff]

\* max(0.1, 1.0 / (1 + time_diff_hours / 24)) for current_time - created_utc = diff:
\* 1 / (1 + diff/3600/24) is SecondsPerDay / (SecondsPerDay + diff); the
\* division raises ZeroDivisionError when that denominator is 0
TimeDecay(diff) ==
    IF SecondsPerDay + diff = 0
    THEN [raised |-> TRUE, num |-> 0, den |-> 1]
    ELSE IF SecondsPerDay + diff > 0 /\ DecayFloorDen * SecondsPerDay >= SecondsPerDay + diff
         THEN [raised |-> FALSE, num |-> SecondsPerDay, den |-> SecondsPerDay + diff]
         ELSE [raised |-> FALSE, num |-> 1, den |-> DecayFloorDen]

\* (engagement_score + quality_score) * 20:
\* ups * 1.0 + comments * 0.8 + score * 0.6 + upvote_ratio * 0.5
EngagementPlusQuality(post) ==
    20 * GetOr(post, "ups", 0) + 16 * GetOr(post, "num_comments", 0)
    + 12 * GetOr(post, "score", 0) + GetOr(post, "upvote_ratio", DefaultRatioTenths)

\* calculate_post_popularity_score at time now: the score is the fraction
\* num/den, with den = 20 * 10 * time_decay.den
calculate_post_popularity_score(post, subreddit_weight, now) ==
    LET d == TimeDecay(now - GetOr(post, "created_utc", 0)) IN
    [raised |-> d.raised,
     time_decay |-> [num |-> d.num, den |-> d.den],
     num |-> EngagementPlusQuality(post) * subreddit_weight * d.num,
     den |-> 200 * d.den]

(***************************************************************************)
(* The scorers on their own: one call of one scorer per behaviour.         *)
(***************************************************************************)
MaxKeywords == 4    \* keywords in the list given to calculate_post_relevance
MaxCount == 2       \* ups of a post given to calculate_post_popularity_score

NowTime == 20 * SecondsPerDay

ScoreKeywords ==
    {TickerX, <<"$", "X">>, <<"V", "i", "s", "a">>}
ScoreTitles ==
    {<<>>, <<"X">>, <<"x", " ", "u", "p">>, <<"$", "X">>, <<"m", "a", "x">>,
     <<"a", "$", "x">>, <<"V", "I", "S", "A", " ", "x">>, <<"T", "w", "i", "t", "t", "e", "r", " ", "X", " ", "$", "X">>}
ScoreBodies ==
    {<<>>, <<"x">>, <<"t", "a", "x", "i">>, <<"x", ",", " ", "X", ";", " ", "$", "x", " ", "v", "i", "s", "a", " ", "t", "w", "i", "t", "t", "e", "r">>}

\* hours between created_utc and the call; negative for a post from the future
AgeHours == {0, 1, 12, 24, 72, 215, 216, 217, 480, -12, -24, -48}
ScoreWeights == {10, 8, 5}

NoFiles == [c \in Communities |-> Absent]

ScoreInit ==
    /\ disk = NoFiles
    /\ clock = 1
    /\ last = NoCall
    /\ scored = [op |-> "none"]
    /\ result = [op |-> "none"]
    /\ run = NoRun
    /\ news = NoNews
    /\ writers = NoWriters

RelevanceCall ==
    /\ scored.op = "none"
    /\ \E title \in ScoreTitles, body \in ScoreBodies, has_body \in BOOLEAN,
          keywords \in SeqsUpTo(ScoreKeywords, MaxKeywords) :
         LET post == IF has_body THEN [id |-> "p1", title |-> title, selftext |-> body]
                               ELSE [id |-> "p1", title |-> title]
             r == calculate_post_relevance(post, keywords)
         IN  /\ has_body \/ body = <<>>
             /\ scored' = [op |-> "relevance", post |-> post, keywords |-> keywords,
                           raised |-> r.raised, title_matches |-> r.title_matches,
                           content_matches |-> r.content_matches, value |-> r.value]
    /\ UNCHANGED <<disk, clock, last, result, run, news, writers>>

PopularityCall ==
    /\ scored.op = "none"
    /\ \E ups \in 0..MaxCount, comments \in 0..1, ratio \in {0, 5, 9}, age \in AgeHours,
          weight \in ScoreWeights :
         LET post == [id |-> "p1", ups |-> ups, num_comments |-> comments, score |-> ups,
                      upvote_ratio |-> ratio, created_utc |-> NowTime - age * SecondsPerHour]
             r == calculate_post_popularity_score(post, weight, NowTime)
         IN  scored' = [op |-> "popularity", post |-> post, weight |-> weight,
                        now |-> NowTime, raised |-> r.raised, time_decay |-> r.time_decay,
                        num |-> r.num, den |-> r.den]
    /\ UNCHANGED <<disk, clock, last, result, run, news, writers>>

ScoreNext ==
    \/ RelevanceCall
    \/ PopularityCall

SpecScore == ScoreInit /\ [][ScoreNext]_vars

\* the keyword occurs in the title or in the body of the post, whatever the case
Occurs(keyword, post) ==
    \/ Contains(Lower(GetOr(post, "title", <<>>)), Lower(keyword))
    \/ Contains(Lower(GetOr(post, "selftext", <<>>)), Lower(keyword))

TopPostsLimit == 10
SamplePostsLimit == 3
DefaultWeightTenths == 5

\* SUBREDDIT_WEIGHTS, in tenths
SUBREDDIT_WEIGHTS ==
    [wallstreetbets |-> 10, stocks |-> 8, investing |-> 7, StockMarket |-> 6,
     SecurityAnalysis |-> 5, ValueInvesting |-> 4]

\* SUBREDDIT_WEIGHTS.get(subreddit_name, 0.5)
WeightOf(name) ==
    IF name \in DOMAIN SUBREDDIT_WEIGHTS THEN SUBREDDIT_WEIGHTS[name] ELSE DefaultWeightTenths

\* the popularity score of a post as an integer
ScoreUnits(post, weight, now) ==
    LET d == TimeDecay(now - GetOr(post, "created_utc", 0)) IN
    EngagementPlusQuality(post) * weight * ((60 * d.num) \div d.den)

\* s[:n] of Python
Slice(s, n) ==
    IF n >= 0 THEN SubSeq(s, 1, Min(n, Len(s)))
    ELSE SubSeq(s, 1, IF Len(s) + n > 0 THEN Len(s) + n ELSE 0)

RECURSIVE SumOf(_, _)
SumOf(s, field) == IF s = <<>> THEN 0 ELSE Head(s)[field] + SumOf(Tail(s), field)

\* list.sort(key=..., reverse=True): descending and stable
RECURSIVE InsertDesc(_, _, _)
InsertDesc(sorted, x, field) ==
    IF sorted = <<>> THEN <<x>>
    ELSE IF Head(sorted)[field] >= x[field]
         THEN <<Head(sorted)>> \o InsertDesc(Tail(sorted), x, field)
         ELSE <<x>> \o sorted

RECURSIVE SortDesc(_, _)
SortDesc(s, field) ==
    IF s = <<>> THEN <<>>
    ELSE InsertDesc(SortDesc(SubSeq(s, 1, Len(s) - 1), field), s[Len(s)], field)

\* the body of the loop over the lines of one file after the relevance of the
\* post was computed: the post, scored, when it passes the relevance filter
ScorePost(post, name, relevance, min_relevance, weight, now) ==
    IF relevance.raised THEN [raised |-> TRUE, posts |-> <<>>]
    ELSE IF relevance.value < min_relevance THEN [raised |-> FALSE, posts |-> <<>>]
    ELSE IF calculate_post_popularity_score(post, weight, now).raised
    THEN [raised |-> TRUE, posts |-> <<>>]
    ELSE [raised |-> FALSE,
          posts |-> <<[id |-> GetOr(post, "id", "None"),
                       subreddit |-> name,
                       relevance |-> relevance.value,
                       popularity_score |-> ScoreUnits(post, weight, now)]>>]

\* the body of the loop over the lines of one file, for one line.  post.get on
\* a line that is JSON but no object, .lower() on a null title and the
\* division of the time decay raise (raised); a line that is no JSON is
\* skipped, and so is a post older than cutoff_time.
ScanLine(l, name, keywords, cutoff_time, min_relevance, weight, now) ==
    IF l.kind = "bad" THEN [raised |-> FALSE, posts |-> <<>>]
    ELSE IF l.kind = "scalar" THEN [raised |-> TRUE, posts |-> <<>>]
    ELSE IF GetOr(l.rec, "created_utc", 0) < cutoff_time THEN [raised |-> FALSE, posts |-> <<>>]
    ELSE ScorePost(l.rec, name, calculate_post_relevance(l.rec, keywords), min_relevance,
                   weight, now)

\* the end of the body of the loop over the lines: what was found so far when
\* the line raised, and the scan of the other lines when it did not
RECURSIVE ScanLines(_, _, _, _, _, _, _, _)
ScanRest(one, rest, name, keywords, cutoff_time, min_relevance, weight, now, found) ==
    IF one.raised THEN [posts |-> found, raised |-> TRUE]
    ELSE ScanLines(rest, name, keywords, cutoff_time, min_relevance, weight, now,
                   found \o one.posts)

\* the loop over the lines of one file: the handler around the whole file
\* catches what a line raises and the scan of the file ends there
ScanLines(lines, name, keywords, cutoff_time, min_relevance, weight, now, found) ==
    IF lines = <<>> THEN [posts |-> found, raised |-> FALSE]
    ELSE ScanRest(ScanLine(Head(lines), name, keywords, cutoff_time, min_relevance, weight, now),
                  Tail(lines), name, keywords, cutoff_time, min_relevance, weight, now, found)

\* subreddit_breakdown[name] = data, in a dict that keeps insertion order
BreakdownPut(breakdown, data) ==
    IF \E i \in 1..Len(breakdown) : breakdown[i].name = data.name
    THEN [i \in 1..Len(breakdown) |-> IF breakdown[i].name = data.name THEN data ELSE breakdown[i]]
    ELSE Append(breakdown, data)

\* what the scan of the file of a subreddit leaves: the posts it found are in
\* all_relevant_posts, and the subreddit is in the breakdown unless the scan
\* raised
Scanned(st, name, scan) ==
    [all_relevant_posts |-> st.all_relevant_posts \o scan.posts,
     subreddit_breakdown |->
         IF scan.raised THEN st.subreddit_breakdown
         ELSE BreakdownPut(st.subreddit_breakdown,
                           [name |-> name, mentions |-> Len(scan.posts),
                            popularity_score |-> SumOf(scan.posts, "popularity_score"),
                            posts |-> scan.posts])]

\* one iteration of the loop over the subreddits
ScanCommunity(st, files, name, keywords, cutoff_time, min_relevance, now) ==
    IF ~files[name].exists THEN st
    ELSE Scanned(st, name,
                 ScanLines(files[name].lines, name, keywords, cutoff_time, min_relevance,
                           WeightOf(name), now, <<>>))

\* a loop that ends at the first subreddit without a file
RECURSIVE AnalyzeLoopStopsAtMissing(_, _, _, _, _, _, _)
AnalyzeLoopStopsAtMissing(st, files, subreddits, keywords, cutoff_time, min_relevance, now) ==
    IF subreddits = <<>> \/ ~files[Head(subreddits)].exists THEN st
    ELSE AnalyzeLoopStopsAtMissing(
             ScanCommunity(st, files, Head(subreddits), keywords, cutoff_time, min_relevance, now),
             files, Tail(subreddits), keywords, cutoff_time, min_relevance, now)

RECURSIVE AnalyzeLoop(_, _, _, _, _, _, _)
AnalyzeLoop(st, files, subreddits, keywords, cutoff_time, min_relevance, now) ==
    IF subreddits = <<>> THEN st
    ELSE AnalyzeLoop(
             ScanCommunity(st, files, Head(subreddits), keywords, cutoff_time, min_relevance, now),
             files, Tail(subreddits), keywords, cutoff_time, min_relevance, now)

\* the value of the subreddits argument: None stands for STOCK_SUBREDDITS
DefaultList == <<"None">>
SubredditsOf(subreddits) == IF subreddits = DefaultList THEN STOCK_SUBREDDITS ELSE subreddits

\* (variant: the sum is taken over the top posts only)
AnalysisResultSumsTopPosts(ticker, keywords, days_back, all_relevant_posts, subreddit_breakdown) ==
    [raised |-> FALSE,
     ticker |-> ticker,
     keywords |-> keywords,
     analysis_period_days |-> days_back,
     total_mentions |-> Len(all_relevant_posts),
     total_popularity_score |->
         SumOf(Slice(SortDesc(all_relevant_posts, "popularity_score"), TopPostsLimit),
               "popularity_score"),
     subreddit_breakdown |-> subreddit_breakdown,
     top_posts |-> Slice(SortDesc(all_relevant_posts, "popularity_score"), TopPostsLimit),
     average_popularity_score |->
         IF Len(all_relevant_posts) > 0
         THEN [num |-> SumOf(Slice(SortDesc(all_relevant_posts, "popularity_score"),
                                   TopPostsLimit), "popularity_score"),
               den |-> Len(all_relevant_posts)]
         ELSE [num |-> 0, den |-> 1]]

\* the statistics over all_relevant_posts and the result;
\* average_popularity_score is the fraction num/den.  No statement outside
\* the handlers of the loop raises: raised is FALSE.
AnalysisResult(ticker, keywords, days_back, all_relevant_posts, subreddit_breakdown) ==
    [raised |-> FALSE,
     ticker |-> ticker,
     keywords |-> keywords,
     analysis_period_days |-> days_back,
     total_mentions |-> Len(all_relevant_posts),
     total_popularity_score |-> SumOf(all_relevant_posts, "popularity_score"),
     subreddit_breakdown |-> subreddit_breakdown,
     top_posts |-> Slice(SortDesc(all_relevant_posts, "popularity_score"), TopPostsLimit),
     average_popularity_score |->
         IF Len(all_relevant_posts) > 0
         THEN [num |-> SumOf(all_relevant_posts, "popularity_score"),
               den |-> Len(all_relevant_posts)]
         ELSE [num |-> 0, den |-> 1]]

AnalysisOfLoop(ticker, keywords, days_back, st) ==
    AnalysisResult(ticker, keywords, days_back, st.all_relevant_posts, st.subreddit_breakdown)

AnalyzeWith(files, ticker, keywords, subreddits, min_relevance, days_back, now) ==
    AnalysisOfLoop(ticker, keywords, days_back,
                   AnalyzeLoop([all_relevant_posts |-> <<>>, subreddit_breakdown |-> <<>>],
                               files, SubredditsOf(subreddits), keywords,
                               now - days_back * HoursPerDay * SecondsPerHour,
                               min_relevance, now))

analyze_stock_popularity(files, ticker, subreddits, min_relevance, days_back, now) ==
    AnalyzeWith(files, ticker, generate_stock_keywords(ticker), subreddits, min_relevance,
                days_back, now)

(***************************************************************************)
(* StockPopularityAnalyzer.generate_stock_popularity_ranking               *)
(***************************************************************************)
LightBelow == 5
ModerateBelow == 20
ActiveBelow == 50

\* max(subreddit_breakdown.items(), key=mentions): the first of the entries
\* with the most mentions, by position
MoreMentions(breakdown, i, j) == IF breakdown[i].mentions > breakdown[j].mentions THEN i ELSE j

RECURSIVE FirstMostMentions(_, _)
FirstMostMentions(breakdown, i) ==
    IF i = 1 THEN 1 ELSE MoreMentions(breakdown, i, FirstMostMentions(breakdown, i - 1))

\* _get_top_subreddit
get_top_subreddit(subreddit_breakdown) ==
    IF subreddit_breakdown = <<>> THEN ""
    ELSE subreddit_breakdown[FirstMostMentions(subreddit_breakdown,
                                               Len(subreddit_breakdown))].name

\* _generate_trend_description; the labels are those of the source, in English
generate_trend_description(analysis) ==
    LET mentions == analysis.total_mentions IN
    IF mentions = 0 THEN "no discussion"
    ELSE IF mentions < LightBelow THEN "light discussion"
    ELSE IF mentions < ModerateBelow THEN "moderate discussion"
    ELSE IF mentions < ActiveBelow THEN "active discussion"
    ELSE "hot discussion"

\* a.average_popularity_score > b.average_popularity_score, on the fractions
HigherAverage(a, b) ==
    a.average_popularity_score.num * b.average_popularity_score.den
        > b.average_popularity_score.num * a.average_popularity_score.den

\* max(top_stocks, key=average_popularity_score): the first of the entries
\* with the highest average, by position
Higher(top_stocks, i, j) == IF HigherAverage(top_stocks[i], top_stocks[j]) THEN i ELSE j

RECURSIVE FirstHighestAverage(_, _)
FirstHighestAverage(top_stocks, i) ==
    IF i = 1 THEN 1 ELSE Higher(top_stocks, i, FirstHighestAverage(top_stocks, i - 1))

HottestIndex(top_stocks) == FirstHighestAverage(top_stocks, Len(top_stocks))

\* _generate_summary_stats; average_mentions_per_stock is the fraction num/den
\* and the empty dict is the function with the empty domain
generate_summary_stats(top_stocks) ==
    IF top_stocks = <<>> THEN <<>>
    ELSE [total_mentions_all_stocks |-> SumOf(top_stocks, "total_mentions"),
          total_popularity_score_all_stocks |-> SumOf(top_stocks, "total_popularity_score"),
          average_mentions_per_stock |->
              [num |-> SumOf(top_stocks, "total_mentions"), den |-> Len(top_stocks)],
          most_discussed_stock |-> top_stocks[1].ticker,
          hottest_stock |-> top_stocks[HottestIndex(top_stocks)].ticker]

\* the test "if analysis['total_mentions'] > 0" of the loop over the tickers
IncludesZeroMentions(analysis) == analysis.total_mentions >= 0
HasMentions(analysis) == analysis.total_mentions > 0

\* ticker_to_company.get(ticker, ticker)
CompanyName(ticker) ==
    IF ticker \in DOMAIN ticker_to_company THEN ticker_to_company[ticker] ELSE ticker

RankingEntry(ticker, analysis) ==
    [rank |-> 0,
     ticker |-> ticker,
     company_name |-> CompanyName(ticker),
     total_mentions |-> analysis.total_mentions,
     total_popularity_score |-> analysis.total_popularity_score,
     average_popularity_score |-> analysis.average_popularity_score,
     top_subreddit |-> get_top_subreddit(analysis.subreddit_breakdown),
     trend_description |-> generate_trend_description(analysis),
     sample_posts |-> Slice(analysis.top_posts, SamplePostsLimit)]

\* the loop over the tickers: an analysis that raises is logged and skipped
\* the body of the loop over the tickers, after the analysis
RankOne(rankings, ticker, analysis) ==
    IF ~analysis.raised /\ HasMentions(analysis)
    THEN Append(rankings, RankingEntry(ticker, analysis))
    ELSE rankings

RECURSIVE RankLoop(_, _, _, _, _, _, _)
RankLoop(rankings, files, tickers, subreddits, min_relevance, days_back, now) ==
    IF tickers = <<>> THEN rankings
    ELSE RankLoop(RankOne(rankings, Head(tickers),
                          analyze_stock_popularity(files, Head(tickers), subreddits,
                                                   min_relevance, days_back, now)),
                  files, Tail(tickers), subreddits, min_relevance, days_back, now)

\* rankings.sort(key=total_popularity_score, reverse=True)
SortRankingsByMentions(rankings) == SortDesc(rankings, "total_mentions")
SortRankings(rankings) == SortDesc(rankings, "total_popularity_score")

\* (variant: the rank is the index of enumerate)
AddRanksFromZero(rankings, top_n) ==
    [i \in 1..Len(rankings) |->
        IF i <= Len(Slice(rankings, top_n)) THEN [rankings[i] EXCEPT !.rank = i - 1]
        ELSE rankings[i]]

\* for i, entry in enumerate(rankings[:top_n]): entry["rank"] = i + 1
AddRanks(rankings, top_n) ==
    [i \in 1..Len(rankings) |->
        IF i <= Len(Slice(rankings, top_n)) THEN [rankings[i] EXCEPT !.rank = i] ELSE rankings[i]]

\* the value of the tickers argument: None stands for list(ticker_to_company.keys())
DefaultTickers == <<NoneText>>
AllTickers == <<TickerV, TickerAMD, TickerX>>
TickersOf(tickers) == IF tickers = DefaultTickers THEN AllTickers ELSE tickers

\* (variant: the summary is taken over every entry of rankings)
RankingResultSummarisesAll(days_back, total_stocks_analyzed, rankings, top_n) ==
    [analysis_period_days |-> days_back,
     total_stocks_analyzed |-> total_stocks_analyzed,
     stocks_with_mentions |-> Len(rankings),
     top_stocks |-> Slice(rankings, top_n),
     summary_stats |-> generate_summary_stats(rankings)]

\* the result, of the rankings sorted and ranked
RankingResult(days_back, total_stocks_analyzed, rankings, top_n) ==
    [analysis_period_days |-> days_back,
     total_stocks_analyzed |-> total_stocks_analyzed,
     stocks_with_mentions |-> Len(rankings),
     top_stocks |-> Slice(rankings, top_n),
     summary_stats |-> generate_summary_stats(Slice(rankings, top_n))]

generate_stock_popularity_ranking(files, tickers, subreddits, min_relevance, days_back, top_n, now) ==
    RankingResult(days_back, Len(TickersOf(tickers)),
                  AddRanks(SortRankings(RankLoop(<<>>, files, TickersOf(tickers), subreddits,
                                                 min_relevance, days_back, now)),
                           top_n),
                  top_n)

(***************************************************************************)
(* The analyzer and the ranking over a data set on disk: one call per      *)
(* behaviour, on the collection files of three communities.                *)
(***************************************************************************)
MaxTickers == 2     \* tickers in the list given to the ranking
MaxTopN == 2        \* top_n given to the ranking
MaxMentions == 51   \* total_mentions of an analysis given to the trend description

TitleXUp == <<"X", " ", "u", "p">>
TitleVisa == <<"V", "i", "s", "a">>
TitleNews == <<"n", "e", "w", "s">>
BodyX == <<"x">>

RankPost(id, title, ups, age_hours) ==
    [id |-> id, title |-> title, ups |-> ups,
     created_utc |-> NowTime - age_hours * SecondsPerHour]

\* the ticker X twice, and once in the text of a post only
FileX ==
    FileOf(<<ObjLine(RankPost("x1", TitleXUp, 1, 0)),
             ObjLine(RankPost("x2", TitleXUp, 1, 24)),
             ObjLine(With(RankPost("x3", TitleNews, 0, 0), "selftext", BodyX))>>)
FileV == FileOf(<<ObjLine(RankPost("v1", TitleVisa, 2, 0))>>)
\* X twice and V once, and a post older than the analysis period
FileMixed ==
    FileOf(<<ObjLine(RankPost("x4", TitleXUp, 1, 0)),
             ObjLine(RankPost("x5", TitleXUp, 1, 0)),
             ObjLine(RankPost("v2", TitleVisa, 2, 0)),
             ObjLine(RankPost("x6", TitleXUp, 2, 240))>>)
\* a line that is no JSON, and a line that is JSON but no object
FileBroken ==
    FileOf(<<BadLine, ObjLine(RankPost("v3", TitleVisa, 1, 12)), ScalarLine,
             ObjLine(RankPost("x7", TitleXUp, 1, 0))>>)

\* one post that names two tickers, in a community without a configured weight
TitleBoth == <<"V", "i", "s", "a", " ", "X">>
FileBoth == FileOf(<<ObjLine(RankPost("b1", TitleBoth, 1, 0))>>)

RankData ==
    {[c \in Communities |->
         IF c = "wallstreetbets" THEN w ELSE IF c = "stocks" THEN s
         ELSE IF c = "news" THEN n ELSE Absent] :
       w \in {Absent, FileV, FileMixed},
       s \in {Absent, FileX, FileMixed, FileBroken},
       n \in {Absent, FileOf(<<>>), FileBoth}}

RankSubreddits == {DefaultList, <<"stocks">>, <<"news", "stocks", "wallstreetbets">>}
AnalyzeSubreddits == RankSubreddits \cup {<<>>, <<"stocks", "investing", "stocks", "stocks", "stocks">>}
RankMinRelevance == {1, 5}
RankDaysBack == {1, 7}
DefaultMinRelevance == 1
DefaultDaysBack == 7

RankInit ==
    /\ disk \in RankData
    /\ clock = 1
    /\ last = NoCall
    /\ scored = [op |-> "none"]
    /\ result = [op |-> "none"]
    /\ run = NoRun
    /\ news = NoNews
    /\ writers = NoWriters

AnalyzeCall ==
    /\ result.op = "none"
    /\ \E ticker \in Tickers, subreddits \in AnalyzeSubreddits,
          min_relevance \in RankMinRelevance, days_back \in RankDaysBack :
         result' = [op |-> "analyze", ticker |-> ticker, subreddits |-> subreddits,
                    min_relevance |-> min_relevance, days_back |-> days_back,
                    res |-> analyze_stock_popularity(disk, ticker, subreddits,
                                                     min_relevance, days_back, NowTime)]
    /\ UNCHANGED <<disk, clock, last, scored, run, news, writers>>

RankCall ==
    /\ result.op = "none"
    /\ \E tickers \in SeqsUpTo(Tickers, MaxTickers) \cup {DefaultTickers},
          subreddits \in RankSubreddits, top_n \in -1..MaxTopN :
         result' = [op |-> "rank", tickers |-> tickers, subreddits |-> subreddits,
                    min_relevance |-> DefaultMinRelevance, days_back |-> DefaultDaysBack,
                    top_n |-> top_n,
                    res |-> generate_stock_popularity_ranking(
                                disk, tickers, subreddits, DefaultMinRelevance,
                                DefaultDaysBack, top_n, NowTime)]
    /\ UNCHANGED <<disk, clock, last, scored, run, news, writers>>

\* the analyses given to _generate_trend_description alone: every number of
\* mentions up to MaxMentions, with two totals each
TrendScores == {0, 100}

TrendCall ==
    /\ result.op = "none"
    /\ \E mentions \in 0..MaxMentions, score \in TrendScores :
         result' = [op |-> "trend",
                    analysis |-> [total_mentions |-> mentions,
                                  total_popularity_score |-> score],
                    res |-> generate_trend_description(
                                [total_mentions |-> mentions,
                                 total_popularity_score |-> score])]
    /\ UNCHANGED <<disk, clock, last, scored, run, news, writers>>

RankNext == AnalyzeCall \/ RankCall \/ TrendCall

SpecRank == RankInit /\ [][RankNext]_vars

(***************************************************************************)
(* Claims about the ranking and the analyzer                               *)
(***************************************************************************)
\* the analysis the ranking of the recorded call makes of a ticker
AnalysisOf(ticker) ==
    analyze_stock_popularity(disk, ticker, result.subreddits, result.min_relevance,
                             result.days_back, NowTime)

RankedTickers == {result.res.top_stocks[i].ticker : i \in 1..Len(result.res.top_stocks)}

\* C6: Ranking exclusion.  For every ticker list and every data set, a ticker
\* whose analysis has total_mentions = 0 is no element of top_stocks of the
\* ranking, and stocks_with_mentions counts exactly the tickers of the list
\* whose analysis has mentions.
C6_RankingExclusion ==
    result.op = "rank" =>
        LET tickers == TickersOf(result.tickers)
            mentions == [t \in Range(tickers) |-> AnalysisOf(t).total_mentions]
        IN
        /\ \A t \in Range(tickers) : mentions[t] = 0 => t \notin RankedTickers
        /\ \A i \in 1..Len(result.res.top_stocks) :
              result.res.top_stocks[i].total_mentions > 0
        /\ result.res.stocks_with_mentions =
              Cardinality({i \in 1..Len(tickers) : mentions[tickers[i]] > 0})

\* a ranking of two tickers, one with mentions and one without
C6_Witness ==
    /\ result.op = "rank"
    /\ Len(TickersOf(result.tickers)) = 2
    /\ Len(result.res.top_stocks) = 1
    /\ \E i \in 1..2 : AnalysisOf(TickersOf(result.tickers)[i]).total_mentions = 0
    /\ result.res.stocks_with_mentions = 1

\* the two entities of the example: A with total 100 and average 50, B with
\* total 90 and average 95
ExampleA ==
    [rank |-> 0, ticker |-> <<"A">>, total_mentions |-> 2, total_popularity_score |-> 100,
     average_popularity_score |-> [num |-> 50, den |-> 1]]
ExampleB ==
    [rank |-> 0, ticker |-> <<"B">>, total_mentions |-> 1, total_popularity_score |-> 90,
     average_popularity_score |-> [num |-> 95, den |-> 1]]
ExampleTop == AddRanks(SortRankings(<<ExampleB, ExampleA>>), 2)

\* C7: Ranking is by total, hottest is by average.  The rank-1 entry of
\* top_stocks has the greatest total_popularity_score among the tickers of
\* the list with mentions, and summary_stats.hottest_stock is the ticker of an
\* entry of top_stocks whose average_popularity_score no entry of top_stocks
\* exceeds; the two can be different tickers: sorted and summarised, the
\* entries A (total 100, average 50) and B (total 90, average 95) give the
\* top-1 A and the hottest_stock B.
C7_RankByTotalHottestByAverage ==
    (result.op = "rank" /\ result.res.top_stocks # <<>>) =>
        LET analyses == [t \in Range(TickersOf(result.tickers)) |-> AnalysisOf(t)]
            top == result.res.top_stocks
        IN
        /\ top[1].rank = 1
        /\ \A t \in DOMAIN analyses :
              analyses[t].total_mentions > 0 =>
                  analyses[t].total_popularity_score <= top[1].total_popularity_score
        /\ \A i \in 1..Len(top) : i > 1 =>
              top[i - 1].total_popularity_score >= top[i].total_popularity_score
        /\ \E h \in 1..Len(top) :
              /\ top[h].ticker = result.res.summary_stats.hottest_stock
              /\ \A i \in 1..Len(top) : ~HigherAverage(top[i], top[h])
        /\ ExampleTop[1].ticker = ExampleA.ticker /\ ExampleTop[1].rank = 1
        /\ generate_summary_stats(ExampleTop).hottest_stock = ExampleB.ticker

\* the rank-1 ticker has the greater total and the other the greater average
C7_Witness ==
    /\ result.op = "rank"
    /\ Len(result.res.top_stocks) = 2
    /\ result.res.top_stocks[1].total_popularity_score
           > result.res.top_stocks[2].total_popularity_score
    /\ HigherAverage(result.res.top_stocks[2], result.res.top_stocks[1])
    /\ result.res.summary_stats.hottest_stock = result.res.top_stocks[2].ticker
    /\ result.res.summary_stats.hottest_stock # result.res.top_stocks[1].ticker

\* the subreddits of a list whose collection file exists
RECURSIVE WithFile(_)
WithFile(subreddits) ==
    IF subreddits = <<>> THEN <<>>
    ELSE IF disk[Head(subreddits)].exists
         THEN <<Head(subreddits)>> \o WithFile(Tail(subreddits))
         ELSE WithFile(Tail(subreddits))

\* C10: Missing community data is not an error.  analyze_stock_popularity
\* does not raise when the file of a community of the list is absent; such a
\* community contributes nothing: the mentions, the total and the posts are
\* those of the analysis of the communities whose files exist, every counted
\* post is of a community with a file and no absent community is in the
\* breakdown.  With no file at all the result has total_mentions 0,
\* total_popularity_score 0 and average_popularity_score 0.
C10_MissingFileNotAnError ==
    result.op = "analyze" =>
        LET subreddits == SubredditsOf(result.subreddits)
            present == analyze_stock_popularity(disk, result.ticker, WithFile(subreddits),
                                                result.min_relevance, result.days_back, NowTime)
        IN
        /\ ~result.res.raised
        /\ result.res.total_mentions = present.total_mentions
        /\ result.res.total_popularity_score = present.total_popularity_score
        /\ result.res.top_posts = present.top_posts
        /\ \A i \in 1..Len(result.res.top_posts) :
              disk[result.res.top_posts[i].subreddit].exists
        /\ \A i \in 1..Len(result.res.subreddit_breakdown) :
              disk[result.res.subreddit_breakdown[i].name].exists
        /\ WithFile(subreddits) = <<>> =>
              /\ result.res.total_mentions = 0
              /\ result.res.total_popularity_score = 0
              /\ result.res.average_popularity_score.num = 0
              /\ result.res.subreddit_breakdown = <<>>
              /\ result.res.top_posts = <<>>
              /\ result.res.ticker = result.ticker

\* an analysis over a list whose first community has no file and a later one
\* has a file with mentions
C10_Witness ==
    /\ result.op = "analyze"
    /\ result.subreddits # <<>>
    /\ ~disk[SubredditsOf(result.subreddits)[1]].exists
    /\ result.res.total_mentions > 0

\* an analysis over the configured communities with no file at all
C10_WitnessNoFiles ==
    /\ result.op = "analyze"
    /\ result.subreddits = DefaultList
    /\ \A c \in Communities : ~disk[c].exists
    /\ result.res.total_mentions = 0

\* ---------------------------------------------------------------------------
\* The download run: main of scripts/download_reddit_data.py, the functions
\* download_reddit_data and download_custom_subreddits, and the methods
\* download_all_categories and download_category_data of RedditDataDownloader
\* ---------------------------------------------------------------------------

\* the configured categories, each with the first communities of its list
\* (the lists of the source hold 7, 7 and 5 names)
DEFAULT_SUBREDDITS ==
    [global_news |-> <<"worldnews", "news">>,
     company_news |-> <<"stocks", "investing">>,
     crypto_news |-> <<"CryptoCurrency">>]

\* DEFAULT_SUBREDDITS.keys(), in the order of the dict
CategoryKeys == <<"global_news", "company_news", "crypto_news">>

\* DEFAULT_SUBREDDITS.get(category, [])
ConfiguredSubreddits(category) ==
    IF category \in DOMAIN DEFAULT_SUBREDDITS THEN DEFAULT_SUBREDDITS[category] ELSE <<>>

\* --category of the command line, and what a caller of download_reddit_data
\* can pass besides
CliCategories == {"all"} \cup Range(CategoryKeys)
ApiCategories == CliCategories \cup {"tech_news"}

\* --custom-subreddits of the command line (nargs="+": never empty), and the
\* lists a caller of download_custom_subreddits can pass
CustomCategory == "custom"
CliCustomLists == {<<"stocks">>}
ApiCustomLists == CliCustomLists \cup {<<>>}

\* category_dir / f"{subreddit_name}.jsonl"
FilePath(category, subreddit_name) == <<category, subreddit_name>>

DownloadPaths ==
    UNION {{FilePath(c, s) : s \in Range(ConfiguredSubreddits(c))} : c \in Range(CategoryKeys)} \cup
    {FilePath(CustomCategory, s) : s \in UNION {Range(l) : l \in ApiCustomLists}}

\* the posts a listing delivers
FetchedPosts ==
    <<[id |-> "p1", score |-> 2, url |-> "u1"], [id |-> "p2", score |-> 1, url |-> "u1"]>>

\* the data directory before the run: empty, or with the files an earlier run
\* left for r/stocks
StocksFile == FileOf(<<ObjLine(OldPost("p1", 1)), ObjLine(OldPost("p3", 1))>>)
DownloadDisks ==
    {[p \in DownloadPaths |-> Absent],
     [p \in DownloadPaths |-> IF p[2] = "stocks" /\ p[1] \in {"company_news", CustomCategory}
                              THEN StocksFile ELSE Absent]}

\* run: the position of the run (pc), its arguments, the categories still to
\* process (todo), the category being processed with the communities still to
\* fetch and its success_count, the results dict as a list of entries, what
\* happened at each file (outcome), the error that ended the run before its
\* first category (fatal), whether the downloader was constructed,
\* the data directory at the start (before), and the exit status of the process ("none" for a call that is not the script)
NoOutcome == [p \in DownloadPaths |-> "todo"]

\* the arguments of a call: subreddits is the custom list of a call with one
RunArgs(entry, category, custom, subreddits) ==
    [entry |-> entry, category |-> category, custom |-> custom, subreddits |-> subreddits]

Exited(args, fatal, results, outcome, exit_code) ==
    [pc |-> "exit", args |-> args, fatal |-> fatal, constructed |-> FALSE, todo |-> <<>>, category |-> "",
     subreddits |-> <<>>, success_count |-> 0, results |-> results, outcome |-> outcome,
     before |-> disk, exit_code |-> exit_code]

DownloadInit ==
    /\ disk \in DownloadDisks
    /\ clock = 1
    /\ last = NoCall
    /\ scored = [op |-> "none"]
    /\ result = [op |-> "none"]
    /\ run = NoRun
    /\ news = NoNews
    /\ writers = NoWriters

\* main: --demo, or --check (whatever check_requirements says): return
MainInfo ==
    /\ run.pc = "none"
    /\ \E flag \in {"demo", "check"} :
          run' = Exited(RunArgs("cli", flag, FALSE, <<>>), "none", <<>>, NoOutcome, "0")
    /\ UNCHANGED <<disk, clock, last, scored, result, news, writers>>

\* main: check_requirements is False (praw missing, or REDDIT_CLIENT_ID or
\* REDDIT_CLIENT_SECRET unset): sys.exit(1)
MainMissingRequirements ==
    /\ run.pc = "none"
    /\ \E category \in CliCategories :
          run' = Exited(RunArgs("cli", category, FALSE, <<>>), "requirements", <<>>, NoOutcome, "1")
    /\ UNCHANGED <<disk, clock, last, scored, result, news, writers>>

\* the exit status of main after the call returned: it prints the results
\* and returns; a caller of the functions gets the results
ExitCode(entry) == IF entry = "cli" THEN "0" ELSE "none"

\* the categories a call goes through
CategoriesOf(category, custom) ==
    IF custom THEN <<CustomCategory>>
    ELSE IF category = "all" THEN CategoryKeys ELSE <<category>>

\* the inputs of a call: the script with --category or --custom-subreddits,
\* download_reddit_data, download_custom_subreddits
CallInputs ==
    {RunArgs("cli", c, FALSE, <<>>) : c \in CliCategories} \cup
    {RunArgs("cli", "company_news", TRUE, l) : l \in CliCustomLists} \cup
    {RunArgs("api", c, FALSE, <<>>) : c \in ApiCategories} \cup
    {RunArgs("api", CustomCategory, TRUE, l) : l \in ApiCustomLists}

\* RedditDataDownloader(...) raises (ValueError for missing credentials, the
\* error of data_dir.mkdir, or the error of reddit.user.me()):
\* download_reddit_data returns {}, download_custom_subreddits returns False
ConstructError ==
    /\ run.pc = "none"
    /\ \E args \in CallInputs :
          run' = Exited(args, "constructor",
                        IF args.custom
                        THEN <<[category |-> CustomCategory, success |-> FALSE]>> ELSE <<>>,
                        NoOutcome, ExitCode(args.entry))
    /\ UNCHANGED <<disk, clock, last, scored, result, news, writers>>

\* the constructor returns: the call goes to its first category
Construct ==
    /\ run.pc = "none"
    /\ \E args \in CallInputs :
          run' = [pc |-> "category", args |-> args, fatal |-> "none", constructed |-> TRUE,
                  todo |-> CategoriesOf(args.category, args.custom),
                  category |-> "", subreddits |-> <<>>, success_count |-> 0,
                  results |-> <<>>, outcome |-> NoOutcome, before |-> disk,
                  exit_code |-> "none"]
    /\ UNCHANGED <<disk, clock, last, scored, result, news, writers>>

\* the subreddits of a call of download_category_data
SubredditsOfCall(args, category) ==
    IF args.custom THEN args.subreddits ELSE ConfiguredSubreddits(category)

\* (variant: the call returns at the first category that failed)
ReturnedStopsAtFailure(r, success) ==
    LET results == Append(r.results, [category |-> Head(r.todo), success |-> success]) IN
    IF Tail(r.todo) = <<>> \/ ~success
    THEN [r EXCEPT !.pc = "exit", !.todo = <<>>, !.category = "", !.subreddits = <<>>,
                   !.success_count = 0, !.results = results,
                   !.exit_code = ExitCode(r.args.entry)]
    ELSE [r EXCEPT !.pc = "category", !.todo = Tail(r.todo), !.category = "",
                   !.subreddits = <<>>, !.success_count = 0, !.results = results]

\* download_category_data returns success for Head(run.todo): the entry goes
\* into the results, and the call goes to the next category or returns
Returned(r, success) ==
    LET results == Append(r.results, [category |-> Head(r.todo), success |-> success]) IN
    IF Tail(r.todo) = <<>>
    THEN [r EXCEPT !.pc = "exit", !.todo = <<>>, !.category = "", !.subreddits = <<>>,
                   !.success_count = 0, !.results = results,
                   !.exit_code = ExitCode(r.args.entry)]
    ELSE [r EXCEPT !.pc = "category", !.todo = Tail(r.todo), !.category = "",
                   !.subreddits = <<>>, !.success_count = 0, !.results = results]

\* download_category_data: no subreddits for the category: return False
CategoryNoSubreddits ==
    /\ run.pc = "category"
    /\ SubredditsOfCall(run.args, Head(run.todo)) = <<>>
    /\ run' = Returned(run, FALSE)
    /\ UNCHANGED <<disk, clock, last, scored, result, news, writers>>

\* download_category_data: category_dir.mkdir raises: return False
CategoryMkdirError ==
    /\ run.pc = "category"
    /\ SubredditsOfCall(run.args, Head(run.todo)) # <<>>
    /\ run' = Returned(run, FALSE)
    /\ UNCHANGED <<disk, clock, last, scored, result, news, writers>>

\* download_category_data: the directory is there, the loop starts
CategoryBegin ==
    /\ run.pc = "category"
    /\ SubredditsOfCall(run.args, Head(run.todo)) # <<>>
    /\ run' = [run EXCEPT !.pc = "subreddit", !.category = Head(run.todo),
                          !.subreddits = SubredditsOfCall(run.args, Head(run.todo)),
                          !.success_count = 0]
    /\ UNCHANGED <<disk, clock, last, scored, result, news, writers>>

\* (variant: a community counts whenever posts came for it)
FetchedCountsEverySave(r, what, counted) ==
    [r EXCEPT !.subreddits = Tail(r.subreddits),
              !.outcome[FilePath(r.category, Head(r.subreddits))] = what,
              !.success_count = IF what \in {"saved", "mkdir_error", "write_error"}
                                THEN @ + 1 ELSE @]

\* one pass of the loop is over: what happened at the file, and the count
Fetched(r, what, counted) ==
    [r EXCEPT !.subreddits = Tail(r.subreddits),
              !.outcome[FilePath(r.category, Head(r.subreddits))] = what,
              !.success_count = IF counted THEN @ + 1 ELSE @]

\* (variant: the empty list is handed to save_posts_to_jsonl like any other)
FetchNothingSaves ==
    /\ run.pc = "subreddit" /\ run.subreddits # <<>>
    /\ LET p == FilePath(run.category, Head(run.subreddits)) IN
         disk' = [disk EXCEPT ![p] = FileOf(LinesOf(MergePosts(disk[p], <<>>, clock).existing))]
    /\ \E what \in {"empty", "fetch_failed"} : run' = Fetched(run, what, TRUE)
    /\ clock' = clock + 1
    /\ UNCHANGED <<last, scored, result, news, writers>>

\* download_subreddit_data returns []: the listing is empty, or the fetch
\* raised and the error was logged
FetchNothing ==
    /\ run.pc = "subreddit" /\ run.subreddits # <<>>
    /\ \E what \in {"empty", "fetch_failed"} : run' = Fetched(run, what, FALSE)
    /\ UNCHANGED <<disk, clock, last, scored, result, news, writers>>

\* posts came and save_posts_to_jsonl returns True
FetchAndSave ==
    /\ run.pc = "subreddit" /\ run.subreddits # <<>>
    /\ LET p == FilePath(run.category, Head(run.subreddits)) IN
         disk' = [disk EXCEPT ![p] = FileOf(LinesOf(MergePosts(disk[p], FetchedPosts, clock).existing))]
    /\ run' = Fetched(run, "saved", TRUE)
    /\ clock' = clock + 1
    /\ UNCHANGED <<last, scored, result, news, writers>>

\* posts came and save_posts_to_jsonl returns False: file_path.parent.mkdir
\* or open(file_path, "w") raised
FetchAndSaveMkdirError ==
    /\ run.pc = "subreddit" /\ run.subreddits # <<>>
    /\ run' = Fetched(run, "mkdir_error", FALSE)
    /\ clock' = clock + 1
    /\ UNCHANGED <<disk, last, scored, result, news, writers>>

\* posts came and save_posts_to_jsonl returns False: a write raised after
\* the file was truncated and k lines went out
FetchAndSaveWriteError ==
    /\ run.pc = "subreddit" /\ run.subreddits # <<>>
    /\ LET p == FilePath(run.category, Head(run.subreddits)) IN
         \E k \in 0..(Len(MergePosts(disk[p], FetchedPosts, clock).existing) - 1) :
            disk' = [disk EXCEPT ![p] =
                        FileOf(Prefix(LinesOf(MergePosts(disk[p], FetchedPosts, clock).existing), k))]
    /\ run' = Fetched(run, "write_error", FALSE)
    /\ clock' = clock + 1
    /\ UNCHANGED <<last, scored, result, news, writers>>

\* the loop is over: return success_count > 0
CategoryEnd ==
    /\ run.pc = "subreddit" /\ run.subreddits = <<>>
    /\ run' = Returned(run, run.success_count > 0)
    /\ UNCHANGED <<disk, clock, last, scored, result, news, writers>>

DownloadNext ==
    \/ MainInfo
    \/ MainMissingRequirements
    \/ ConstructError
    \/ Construct
    \/ CategoryNoSubreddits
    \/ CategoryMkdirError
    \/ CategoryBegin
    \/ FetchNothing
    \/ FetchAndSave
    \/ FetchAndSaveMkdirError
    \/ FetchAndSaveWriteError
    \/ CategoryEnd

SpecDownload == DownloadInit /\ [][DownloadNext]_vars

\* ---------------------------------------------------------------------------
\* Claims about the download run
\* ---------------------------------------------------------------------------

\* the files of a category that the run fetched and saved: the save returned
\* True and the file holds every fetched id
SavedFiles(category) ==
    {p \in DownloadPaths :
        /\ p[1] = category
        /\ run.outcome[p] = "saved"
        /\ disk[p].exists
        /\ {FetchedPosts[i].id : i \in 1..Len(FetchedPosts)} \subseteq IdsOf(disk[p])}

\* the files of a category at which the run failed or found nothing
UnsavedFiles(category) ==
    {p \in DownloadPaths : p[1] = category /\ run.outcome[p] \notin {"todo", "saved"}}

ResultOf(category) ==
    {run.results[i].success : i \in {j \in 1..Len(run.results) : run.results[j].category = category}}

\* C11: partial success. Every entry of the results is True exactly when at
\* least one community of its category was fetched and saved in the run,
\* whatever happened at the other communities; a call for all categories that
\* got its downloader returns one entry per configured category, in the order
\* of the configuration, also when an earlier category failed.
C11_PartialSuccess ==
    run.pc # "none" =>
        /\ \A i \in 1..Len(run.results) :
              run.results[i].success <=> SavedFiles(run.results[i].category) # {}
        /\ (run.pc = "exit" /\ run.constructed /\ ~run.args.custom /\ run.args.category = "all") =>
              /\ Len(run.results) = Len(CategoryKeys)
              /\ \A i \in 1..Len(CategoryKeys) : run.results[i].category = CategoryKeys[i]

\* a call for all categories whose first category failed at every community
\* and whose second category succeeded with one community saved and the
\* other one failed
C11_Witness ==
    /\ run.pc = "exit" /\ run.constructed /\ run.args.category = "all"
    /\ ResultOf("global_news") = {FALSE}
    /\ Cardinality(UnsavedFiles("global_news")) = 2
    /\ ResultOf("company_news") = {TRUE}
    /\ Cardinality(SavedFiles("company_news")) = 1
    /\ Cardinality(UnsavedFiles("company_news")) = 1

\* a run of the script that was asked to download and has ended
ScriptRunEnded ==
    /\ run.pc = "exit"
    /\ run.args.entry = "cli"
    /\ run.args.category \notin {"demo", "check"}

\* the run got no downloader, or every category it went through failed
TotalFailure ==
    \/ run.fatal = "constructor"
    \/ run.constructed /\ \A i \in 1..Len(run.results) : ~run.results[i].success

\* C12: exit status of a download run. The script exits non-zero exactly when
\* the requirements (praw, credentials) are missing or the run is a total
\* failure: every category failed, or the downloader could not be constructed
\* or authenticated.
C12_ExitStatus ==
    ScriptRunEnded => (run.exit_code # "0" <=> (run.fatal = "requirements" \/ TotalFailure))

\* ---------------------------------------------------------------------------
\* Claims about the lines of a scanned file
\* ---------------------------------------------------------------------------

\* the cutoff of the recorded call
CutoffOf(days_back) == NowTime - days_back * HoursPerDay * SecondsPerHour

\* a line that holds a usable record that passes the two filters of the
\* analyzer: an object, created at or after the cutoff, whose relevance can
\* be computed and is at least min_relevance
Passes(l, keywords, cutoff_time, min_relevance) ==
    /\ l.kind = "obj"
    /\ GetOr(l.rec, "created_utc", 0) >= cutoff_time
    /\ ~calculate_post_relevance(l.rec, keywords).raised
    /\ calculate_post_relevance(l.rec, keywords).value >= min_relevance

PassingLines(f, keywords, cutoff_time, min_relevance) ==
    {i \in 1..Len(f.lines) : Passes(f.lines[i], keywords, cutoff_time, min_relevance)}

\* the number of lines that pass, over the files of the subreddits of a list
RECURSIVE PassingCount(_, _, _, _, _)
PassingCount(files, subreddits, keywords, cutoff_time, min_relevance) ==
    IF subreddits = <<>> THEN 0
    ELSE Cardinality(PassingLines(files[Head(subreddits)], keywords, cutoff_time, min_relevance))
         + PassingCount(files, Tail(subreddits), keywords, cutoff_time, min_relevance)

\* C13: data errors are skipped one line at a time. In every analysis each
\* line that holds a usable record passing the filters is counted, whatever
\* the other lines of its file are (malformed JSON, JSON that is no object):
\* total_mentions is the number of such lines over the files of the list.
C13_DataErrorsSkipOneLine ==
    result.op = "analyze" =>
        result.res.total_mentions =
            PassingCount(disk, SubredditsOf(result.subreddits),
                         generate_stock_keywords(result.ticker),
                         CutoffOf(result.days_back), result.min_relevance)

\* ---------------------------------------------------------------------------
\* googlenews_utils.py: make_request under its retry decorator, getNewsData,
\* fetch_single_page and getNewsDataConcurrent
\* ---------------------------------------------------------------------------

\* what a result page holds: the number of div.SoaBEf elements, how many of
\* them have every field, and whether the page has the pnnext link
ResultPage(elements, parsed, has_next) ==
    [elements |-> elements, parsed |-> parsed, has_next |-> has_next]
NoPage == ResultPage(0, 0, FALSE)
ResultPages ==
    {NoPage, ResultPage(1, 1, TRUE), ResultPage(1, 1, FALSE), ResultPage(1, 0, TRUE)}

\* what the network answers to the session.get of one attempt, and to the
\* second session.get (verify=False) when the first raised SSLError: an
\* exception of requests, or a response with a status and a page
Answer(error, status, retry_error, retry_status, page) ==
    [error |-> error, status |-> status, retry_error |-> retry_error,
     retry_status |-> retry_status, page |-> page]

Answers ==
    {Answer("none", 200, "none", 0, p) : p \in ResultPages} \cup
    {Answer("none", s, "none", 0, NoPage) : s \in {429, 500}} \cup
    {Answer(e, 0, "none", 0, NoPage) : e \in {"ConnectionError", "ReadTimeout", "InvalidURL"}} \cup
    {Answer("SSLError", 0, "none", 200, p) : p \in {ResultPage(1, 1, TRUE)}} \cup
    {Answer("SSLError", 0, "none", 429, NoPage)} \cup
    {Answer("SSLError", 0, e, 0, NoPage) : e \in {"SSLError", "ReadTimeout"}}

\* the classes of requests.exceptions an exception is an instance of
IsA(error, class) ==
    \/ error = class
    \/ class = "ConnectionError" /\ error \in {"SSLError", "ConnectTimeout"}
    \/ class = "Timeout" /\ error \in {"ConnectTimeout", "ReadTimeout"}

\* the outcome of one attempt: an exception, or a response
Raised(error, status) == [raised |-> TRUE, error |-> error, status |-> status, page |-> NoPage]
Response(status, page) == [raised |-> FALSE, error |-> "none", status |-> status, page |-> page]

\* response.raise_for_status(); return response
RaiseForStatus(status, page) ==
    IF status >= 400 /\ status < 600 THEN Raised("HTTPError", status) ELSE Response(status, page)

\* the body of make_request: one attempt
Attempt(answer) ==
    IF answer.error = "none" THEN RaiseForStatus(answer.status, answer.page)
    ELSE IF ~IsA(answer.error, "SSLError") THEN Raised(answer.error, 0)
    ELSE IF answer.retry_error = "none" THEN RaiseForStatus(answer.retry_status, answer.page)
    ELSE Raised(answer.retry_error, 0)

is_rate_limited(response) == response.status = 429

\* the retry condition of the decorator
ShouldRetry(outcome) ==
    IF outcome.raised
    THEN \/ IsA(outcome.error, "ConnectionError")
         \/ IsA(outcome.error, "Timeout")
         \/ IsA(outcome.error, "SSLError")
    ELSE is_rate_limited(outcome)

\* stop_after_attempt(3) and wait_exponential(multiplier=1, min=4, max=60)
StopAfterAttempt == 3
WaitMultiplier == 1
WaitMin == 4
WaitMax == 60

RECURSIVE Pow2(_)
Pow2(n) == IF n <= 0 THEN 1 ELSE 2 * Pow2(n - 1)

Max(a, b) == IF a >= b THEN a ELSE b

\* the seconds the decorator sleeps after the attempt of a number
wait_exponential(attempt_number) ==
    Max(WaitMin, Min(WaitMultiplier * Pow2(attempt_number - 1), WaitMax))

\* what the caller of make_request gets: the response of the last attempt,
\* its exception when the decorator does not retry it, or RetryError when the
\* attempts are used up; attempts is the list of the outcomes of the attempts
\* and waits the list of the sleeps between them
CallResult(outcome, attempts, waits) ==
    [raised |-> outcome.raised, error |-> outcome.error, status |-> outcome.status,
     page |-> outcome.page, attempts |-> attempts, waits |-> waits]

RECURSIVE Retrying(_, _, _, _)
AfterAttempt(answers, attempt_number, outcome, attempts, waits) ==
    IF ~ShouldRetry(outcome) THEN CallResult(outcome, Append(attempts, outcome), waits)
    ELSE IF attempt_number >= StopAfterAttempt
    THEN CallResult(Raised("RetryError", outcome.status), Append(attempts, outcome), waits)
    ELSE Retrying(answers, attempt_number + 1, Append(attempts, outcome),
                  Append(waits, wait_exponential(attempt_number)))

Retrying(answers, attempt_number, attempts, waits) ==
    AfterAttempt(answers, attempt_number, Attempt(answers[attempt_number]), attempts, waits)

\* make_request for the answers the network gives to its attempts
make_request(answers) == Retrying(answers, 1, <<>>, <<>>)

\* the answers of the network to the attempts of one call
Scripts == [1..StopAfterAttempt -> Answers]

\* the results a call can have
RequestResults == {make_request(answers) : answers \in Scripts}

\* the loop of getNewsData has no bound of its own: the pages the network
\* holds are bounded
MaxSerialPage == 3

\* `if page > 3` of the handlers of getNewsData
GiveUpAfterPage == 3

\* the news items parsed from a page: one per element with every field
ItemsOf(page, content) == [i \in 1..content.parsed |-> page]

\* news: the function that runs and its position (pc), the page the serial
\* loop is at, the list of results so far, the pages requested so far, the
\* result of the last make_request of the serial loop (request), and the
\* list the function returned
NoRequest == [raised |-> FALSE, error |-> "none", status |-> 0, page |-> NoPage,
              attempts |-> <<>>, waits |-> <<>>]

NewsInit ==
    /\ disk = [c \in Communities |-> Absent]
    /\ clock = 1
    /\ last = NoCall
    /\ scored = [op |-> "none"]
    /\ result = [op |-> "none"]
    /\ run = NoRun
    /\ news = NoNews
    /\ writers = NoWriters

\* getNewsData(query, start_date, end_date) is called
StartSerial ==
    /\ news.pc = "none"
    /\ news' = [pc |-> "serial", fn |-> "getNewsData", page |-> 0, news_results |-> <<>>,
                requested |-> <<>>, request |-> NoRequest, returned |-> <<>>]
    /\ UNCHANGED <<disk, clock, last, scored, result, run, writers>>

\* break, then return news_results
SerialBreak(n, r) ==
    [n EXCEPT !.pc = "returned", !.requested = Append(@, n.page), !.request = r,
              !.returned = n.news_results]

\* the handlers of Timeout and of ConnectionError: page += 1, break when
\* page > 3, else continue
SerialSkip(n, r) ==
    IF n.page + 1 > GiveUpAfterPage
    THEN [n EXCEPT !.pc = "returned", !.page = n.page + 1, !.requested = Append(@, n.page),
                   !.request = r, !.returned = n.news_results]
    ELSE [n EXCEPT !.page = n.page + 1, !.requested = Append(@, n.page), !.request = r]

\* the page was parsed: its items go to news_results; break without the
\* next link, else page += 1
SerialParsed(n, r) ==
    IF ~r.page.has_next
    THEN [n EXCEPT !.pc = "returned", !.requested = Append(@, n.page), !.request = r,
                   !.news_results = @ \o ItemsOf(n.page, r.page),
                   !.returned = n.news_results \o ItemsOf(n.page, r.page)]
    ELSE [n EXCEPT !.page = n.page + 1, !.requested = Append(@, n.page), !.request = r,
                   !.news_results = @ \o ItemsOf(n.page, r.page)]

\* one pass of the loop of getNewsData, for the result r of make_request
SerialStep(n, r) ==
    IF r.raised
    THEN IF IsA(r.error, "Timeout") \/ IsA(r.error, "ConnectionError")
         THEN SerialSkip(n, r)
         ELSE SerialBreak(n, r)
    ELSE IF r.page.elements = 0 THEN SerialBreak(n, r)
    ELSE SerialParsed(n, r)

SerialPage ==
    /\ news.pc = "serial"
    /\ news.page <= MaxSerialPage
    /\ \E r \in RequestResults : news' = SerialStep(news, r)
    /\ UNCHANGED <<disk, clock, last, scored, result, run, writers>>

\* fetch_single_page for the result r of its make_request: the dict it returns
fetch_single_page(page_num, r) ==
    IF r.raised
    THEN [page |-> page_num, results |-> <<>>, has_next |-> FALSE, success |-> FALSE,
          error |-> IF IsA(r.error, "Timeout") THEN "timeout"
                    ELSE IF IsA(r.error, "ConnectionError") THEN "connection_error"
                    ELSE IF IsA(r.error, "SSLError") THEN "ssl_error"
                    ELSE r.error]
    ELSE [page |-> page_num, results |-> ItemsOf(page_num, r.page),
          has_next |-> r.page.elements > 0 /\ r.page.has_next, success |-> TRUE,
          error |-> "None"]

\* the dicts a fetch of a page can return
PageResults(page_num) == {fetch_single_page(page_num, r) : r \in RequestResults}

\* the arguments of getNewsDataConcurrent
MaxWorkers == 2
MaxPages == 5
DefaultMaxWorkers == 3
FailedPagesLimit == 3

\* range(1, max_pages)
PagesToSubmit(max_pages) == [i \in 1..(max_pages - 1) |-> i]

\* getNewsDataConcurrent(query, start_date, end_date, max_workers, max_pages)
\* is called: max_workers threads at most (max_workers), the tasks submitted
\* and not started (queue), the pages whose fetch is running (running), the
\* results of the futures that are done and not yet yielded by as_completed
\* (completed), the result every future that is done holds (fetched), the
\* counters of the collecting loop, and the pages requested
StartConcurrent ==
    /\ news.pc = "none"
    /\ \E max_workers \in (0..MaxWorkers) \cup {DefaultMaxWorkers}, max_pages \in 0..MaxPages :
          news' = [pc |-> "probe", fn |-> "getNewsDataConcurrent",
                   max_workers |-> max_workers, max_pages |-> max_pages,
                   first_page_result |-> fetch_single_page(0, NoRequest),
                   all_news_results |-> <<>>, requested |-> <<>>, submitted |-> <<>>,
                   queue |-> <<>>, running |-> {}, completed |-> {}, yielded |-> {},
                   fetched |-> {},
                   failed_pages |-> 0, successful_pages |-> 0, returned |-> <<>>]
    /\ UNCHANGED <<disk, clock, last, scored, result, run, writers>>

\* the first page brought nothing: return []
ProbeFails(n, first) ==
    [n EXCEPT !.pc = "done", !.first_page_result = first, !.requested = <<0>>,
              !.returned = <<>>]

\* the first page has no next link: return its results
ProbeOnlyPage(n, first) ==
    [n EXCEPT !.pc = "done", !.first_page_result = first, !.requested = <<0>>,
              !.all_news_results = first.results, !.returned = first.results]

\* ThreadPoolExecutor(max_workers) raises ValueError for max_workers <= 0
ProbePoolError(n, first) ==
    [n EXCEPT !.pc = "raised", !.first_page_result = first, !.requested = <<0>>,
              !.all_news_results = first.results]

\* the pool is there and the pages of range(1, max_pages) are submitted
ProbeSubmits(n, first) ==
    [n EXCEPT !.pc = "pool", !.first_page_result = first, !.requested = <<0>>,
              !.all_news_results = first.results,
              !.submitted = PagesToSubmit(n.max_pages),
              !.queue = PagesToSubmit(n.max_pages),
              !.successful_pages = 1]

\* (variant: the pages are submitted whatever the first page brought)
ProbeStepAlwaysSubmits(n, first) ==
    IF n.max_workers <= 0 THEN ProbePoolError(n, first)
    ELSE ProbeSubmits(n, first)

\* the serial fetch of page 0 and what follows it up to the collecting loop
ProbeStep(n, first) ==
    IF ~first.success \/ first.results = <<>> THEN ProbeFails(n, first)
    ELSE IF ~first.has_next THEN ProbeOnlyPage(n, first)
    ELSE IF n.max_workers <= 0 THEN ProbePoolError(n, first)
    ELSE ProbeSubmits(n, first)

Probe ==
    /\ news.pc = "probe"
    /\ \E first \in PageResults(0) : news' = ProbeStep(news, first)
    /\ UNCHANGED <<disk, clock, last, scored, result, run, writers>>

\* a thread of the pool takes the next task of the queue; the pool has at
\* most max_workers threads, and it runs the queue to its end also after the
\* collecting loop was left (shutdown(wait=True) at the end of the with block)
WorkerStart ==
    /\ news.pc \in {"pool", "closing"}
    /\ news.queue # <<>>
    /\ Cardinality(news.running) < news.max_workers
    /\ news' = [news EXCEPT !.queue = Tail(@), !.running = @ \cup {Head(news.queue)},
                            !.requested = Append(@, Head(news.queue))]
    /\ UNCHANGED <<disk, clock, last, scored, result, run, writers>>

\* the fetch of a page returns and its future is done
WorkerFinish ==
    /\ news.pc \in {"pool", "closing"}
    /\ \E p \in news.running : \E r \in PageResults(p) :
          news' = [news EXCEPT !.running = @ \ {p}, !.completed = @ \cup {r},
                                  !.fetched = @ \cup {r}]
    /\ UNCHANGED <<disk, clock, last, scored, result, run, writers>>

\* the body of the collecting loop for a result with results
CollectedPage(n, r) ==
    [n EXCEPT !.completed = @ \ {r}, !.yielded = @ \cup {r.page},
              !.all_news_results = @ \o r.results,
              !.successful_pages = @ + 1,
              !.pc = IF ~r.has_next \/ n.yielded \cup {r.page} = Range(n.submitted)
                     THEN "closing" ELSE "pool"]

\* the body of the collecting loop for a failed or empty page
CollectedFailure(n, r) ==
    [n EXCEPT !.completed = @ \ {r}, !.yielded = @ \cup {r.page},
              !.failed_pages = @ + 1,
              !.pc = IF n.failed_pages + 1 >= FailedPagesLimit
                        \/ n.yielded \cup {r.page} = Range(n.submitted)
                     THEN "closing" ELSE "pool"]

\* as_completed yields a future that is done: one pass of the collecting
\* loop, which ends at a break and after the last future
Collect ==
    /\ news.pc = "pool"
    /\ \E r \in news.completed :
          news' = IF r.success /\ r.results # <<>> THEN CollectedPage(news, r)
                  ELSE CollectedFailure(news, r)
    /\ UNCHANGED <<disk, clock, last, scored, result, run, writers>>

\* no page was submitted: the collecting loop has nothing to yield
CollectNothing ==
    /\ news.pc = "pool"
    /\ news.submitted = <<>>
    /\ news' = [news EXCEPT !.pc = "closing"]
    /\ UNCHANGED <<disk, clock, last, scored, result, run, writers>>

\* the with block ends when every submitted task has run: return
\* all_news_results
PoolReturn ==
    /\ news.pc = "closing"
    /\ news.queue = <<>> /\ news.running = {}
    /\ news' = [news EXCEPT !.pc = "done", !.returned = news.all_news_results]
    /\ UNCHANGED <<disk, clock, last, scored, result, run, writers>>

NewsNext ==
    \/ StartSerial
    \/ SerialPage
    \/ StartConcurrent
    \/ Probe
    \/ WorkerStart
    \/ WorkerFinish
    \/ Collect
    \/ CollectNothing
    \/ PoolReturn

SpecNews == NewsInit /\ [][NewsNext]_vars

\* ---------------------------------------------------------------------------
\* Claims about the news fetch
\* ---------------------------------------------------------------------------

\* the outcomes the claimed policy retries: a rate-limit response, a
\* connection error, a timeout, an SSL error
Transient(outcome) ==
    \/ outcome.status = 429
    \/ outcome.raised /\ \E class \in {"ConnectionError", "Timeout", "SSLError"} :
                             IsA(outcome.error, class)

\* C14: retry policy of make_request. In every call of make_request an
\* attempt is followed by another one exactly when it ended in a rate-limit
\* response (HTTP 429), a connection error, a timeout or an SSL error and
\* fewer than 3 attempts were made; there are never more than 3 attempts,
\* with one wait between two attempts.
C14_RetryPolicy ==
    news.pc \in {"serial", "returned"} =>
        /\ Len(news.request.attempts) <= StopAfterAttempt
        /\ \A i \in 1..Len(news.request.attempts) :
              (i < Len(news.request.attempts))
                  <=> (Transient(news.request.attempts[i]) /\ i < StopAfterAttempt)
        /\ Len(news.request.waits) = Max(0, Len(news.request.attempts) - 1)

\* the last make_request used up its attempts on transient errors
Exhausted(request) ==
    /\ Len(request.attempts) = StopAfterAttempt
    /\ \A i \in 1..StopAfterAttempt :
          /\ request.attempts[i].raised
          /\ \E class \in {"ConnectionError", "Timeout", "SSLError"} :
                IsA(request.attempts[i].error, class)

\* C15: retry exhaustion abandons only the unit of work. When all attempts
\* for a page of getNewsData failed with a transient network error and the
\* page is not past the page at which the loop gives up, the fetch goes on
\* with the next page: it has not returned, and it keeps what it collected.
C15_ExhaustionAbandonsOnePage ==
    (/\ news.pc \in {"serial", "returned"}
     /\ news.fn = "getNewsData"
     /\ Exhausted(news.request)
     /\ news.requested[Len(news.requested)] + 1 <= GiveUpAfterPage)
        => /\ news.pc = "serial"
           /\ news.page = news.requested[Len(news.requested)] + 1

\* a call of getNewsDataConcurrent is under way or over
Concurrent == news.pc # "none" /\ news.fn = "getNewsDataConcurrent"

\* tasks were given to the pool
PoolUsed ==
    news.submitted # <<>> \/ news.queue # <<>> \/ news.running # {} \/ news.completed # {}

\* the probe and the bound of the pool
ProbeAndPool ==
    /\ news.requested # <<>> => news.requested[1] = 0
    /\ news.pc = "probe" => news.requested = <<>> /\ ~PoolUsed
    /\ PoolUsed => /\ news.first_page_result.success
                   /\ news.first_page_result.results # <<>>
                   /\ news.first_page_result.has_next
    /\ Cardinality(news.running) <= news.max_workers
    /\ \A i, j \in 1..Len(news.requested) : news.requested[i] = news.requested[j] => i = j

C16_WitnessNoPages ==
    /\ Concurrent
    /\ news.max_pages = 0
    /\ news.requested = <<0>>

\* ---------------------------------------------------------------------------
\* Claims about the order of traversal
\* ---------------------------------------------------------------------------

\* the top_stocks of the recorded call for another order of its lists
TopStocksFor(tickers, subreddits) ==
    generate_stock_popularity_ranking(disk, tickers, subreddits, result.min_relevance,
                                      result.days_back, result.top_n, NowTime).top_stocks

\* the orderings of a list that are compared: all of them for a short list,
\* the list and its reverse for a longer one
MaxPermuted == 3
Reverse(s) == [i \in 1..Len(s) |-> s[Len(s) + 1 - i]]
Orderings(s) == IF Len(s) <= MaxPermuted THEN Perms(s) ELSE {s, Reverse(s)}

\* the members of a top_stocks list in their order, with their ranks
Leaderboard(top_stocks) ==
    [i \in 1..Len(top_stocks) |-> <<top_stocks[i].ticker, top_stocks[i].rank>>]

\* C17: ranking does not depend on traversal order. For the data on disk the
\* top_stocks of a ranking (its members, their order and their ranks) is the
\* same for every ordering of the ticker list and of the subreddit list of
\* the call.
C17_RankingOrderIndependent ==
    result.op = "rank" =>
        \A tickers \in Orderings(TickersOf(result.tickers)) :
            \A subreddits \in Orderings(SubredditsOf(result.subreddits)) :
                Leaderboard(TopStocksFor(tickers, subreddits)) = Leaderboard(result.res.top_stocks)

\* ---------------------------------------------------------------------------
\* Claims about a save that fails during a download
\* ---------------------------------------------------------------------------

\* the files at which save_posts_to_jsonl returned False in this run
FailedSaves == {p \in DownloadPaths : run.outcome[p] \in {"mkdir_error", "write_error"}}

\* the files of a category the loop has been through
Visited(category) == {p \in DownloadPaths : p[1] = category /\ run.outcome[p] # "todo"}

\* C18: merge failure is reported, not raised. A save that fails on the
\* directory or on a write ends no loop and no run: the loop of the category
\* has been through exactly the communities before the ones still to fetch,
\* success_count counts the saved files only, a category whose saves all
\* failed is False in the results, and a save that failed on the directory
\* left the file as it was.
C18_MergeFailureReported ==
    run.pc \notin {"none"} =>
        /\ run.pc = "subreddit" =>
              /\ Cardinality(Visited(run.category)) + Len(run.subreddits)
                    = Len(SubredditsOfCall(run.args, run.category))
              /\ run.success_count = Cardinality(SavedFiles(run.category))
        /\ \A i \in 1..Len(run.results) :
              (Visited(run.results[i].category) # {}
               /\ Visited(run.results[i].category) \subseteq FailedSaves)
                  => ~run.results[i].success
        /\ \A i \in 1..Len(run.results) :
              Visited(run.results[i].category) # {} =>
                  Cardinality(Visited(run.results[i].category))
                      = Len(SubredditsOfCall(run.args, run.results[i].category))
        /\ \A p \in DownloadPaths : run.outcome[p] = "mkdir_error" => disk[p] = run.before[p]

\* a category in which the save of the first community failed on a write
\* and the second community was then fetched and saved
C18_Witness ==
    /\ run.pc = "exit"
    /\ run.outcome[FilePath("company_news", "stocks")] = "write_error"
    /\ run.outcome[FilePath("company_news", "investing")] = "saved"
    /\ ResultOf("company_news") = {TRUE}
    /\ run.outcome[FilePath("crypto_news", "CryptoCurrency")] = "mkdir_error"
    /\ ResultOf("crypto_news") = {FALSE}

\* the posts of the result that come from a record of the file of a subreddit
PostsFrom(top_posts, name, rec, weight) ==
    {j \in 1..Len(top_posts) :
        /\ top_posts[j].id = GetOr(rec, "id", "None")
        /\ top_posts[j].subreddit = name
        /\ top_posts[j].popularity_score = ScoreUnits(rec, weight, NowTime)}

\* C19: analyzer filter. A record of the file of a scanned subreddit is among
\* the posts of the analysis, scored with the weight of that subreddit (0.5
\* without a configured weight), if and only if its created_utc is at or
\* after now - days_back * 86400 and its relevance is at least min_relevance.
\* (In the data sets every surviving record has a copy within top_posts.)
C19_AnalyzerFilter ==
    result.op = "analyze" =>
        \A name \in Range(SubredditsOf(result.subreddits)) :
            \A i \in 1..Len(disk[name].lines) :
                disk[name].lines[i].kind = "obj" =>
                    (Passes(disk[name].lines[i], generate_stock_keywords(result.ticker),
                            CutoffOf(result.days_back), result.min_relevance)
                     <=> PostsFrom(result.res.top_posts, name, disk[name].lines[i].rec,
                                   IF name \in DOMAIN SUBREDDIT_WEIGHTS
                                   THEN SUBREDDIT_WEIGHTS[name] ELSE 5) # {})

\* ---------------------------------------------------------------------------
\* Claims about the statistics of an analysis
\* ---------------------------------------------------------------------------

\* the records that survived the scans of the recorded call, in the order
\* the loops met them
Survivors ==
    AnalyzeLoop([all_relevant_posts |-> <<>>, subreddit_breakdown |-> <<>>], disk,
                SubredditsOf(result.subreddits), generate_stock_keywords(result.ticker),
                CutoffOf(result.days_back), result.min_relevance, NowTime).all_relevant_posts

\* how often a post is in a list
Copies(s, post) == Cardinality({i \in 1..Len(s) : s[i] = post})

\* the statistics of a result over the surviving records
AggregatesOver(res, survivors) ==
    /\ res.total_mentions = Len(survivors)
    /\ res.total_popularity_score = SumOf(survivors, "popularity_score")
    /\ res.average_popularity_score.num * Max(Len(survivors), 1)
          = SumOf(survivors, "popularity_score") * res.average_popularity_score.den
    /\ Len(survivors) = 0 => res.average_popularity_score.num = 0
    /\ Len(res.top_posts) = Min(Len(survivors), 10)
    /\ \A i \in 1..(Len(res.top_posts) - 1) :
          res.top_posts[i].popularity_score >= res.top_posts[i + 1].popularity_score
    /\ \A post \in Range(res.top_posts) : Copies(res.top_posts, post) <= Copies(survivors, post)
    /\ \A post \in Range(survivors) :
          Copies(res.top_posts, post) < Copies(survivors, post) =>
              \A i \in 1..Len(res.top_posts) :
                  res.top_posts[i].popularity_score >= post.popularity_score

\* C20: analyzer aggregation. In every result of analyze_stock_popularity
\* total_mentions is the number of surviving records, total_popularity_score
\* is the sum of the scores of all of them, average_popularity_score is
\* total/mentions and 0 without mentions, and top_posts holds the
\* min(10, mentions) surviving records of greatest score in non-increasing
\* order.
C20_Aggregation ==
    result.op = "analyze" => AggregatesOver(result.res, Survivors)

\* an analysis with more than ten surviving records of different scores
C20_Witness ==
    /\ result.op = "analyze"
    /\ result.res.total_mentions > 10
    /\ Len(result.res.top_posts) = 10
    /\ result.res.top_posts[1].popularity_score > result.res.top_posts[10].popularity_score
    /\ result.res.total_popularity_score > SumOf(result.res.top_posts, "popularity_score")

(***************************************************************************)
(* Claims about the leaderboard and its summary                            *)
(***************************************************************************)
\* the analyses the ranking of the recorded call makes, one per position of
\* the ticker list
AnalysesOfCall ==
    [i \in 1..Len(TickersOf(result.tickers)) |-> AnalysisOf(TickersOf(result.tickers)[i])]

\* top is a truncated, sorted and densely ranked leaderboard of the analyses
DenseRanked(top, analyses, top_n) ==
    LET mentioned == {i \in 1..Len(analyses) : analyses[i].total_mentions > 0} IN
    /\ Len(top) = Min(top_n, Cardinality(mentioned))
    /\ \A i \in 1..Len(top) : i > 1 =>
          top[i - 1].total_popularity_score >= top[i].total_popularity_score
    /\ \A i \in 1..Len(top) : top[i].rank = i
    /\ \A i \in mentioned :
          (\A j \in 1..Len(top) : top[j].ticker # analyses[i].ticker) =>
              \A j \in 1..Len(top) :
                  analyses[i].total_popularity_score <= top[j].total_popularity_score

\* C21: Dense ranks on the truncated, sorted leaderboard.  For every
\* top_n >= 1, top_stocks has min(top_n, number of tickers of the list with
\* mentions) entries, is sorted in non-increasing total_popularity_score, its
\* entry at position i (from 0) has rank i + 1, and no ticker left out of
\* top_stocks has a strictly greater total_popularity_score than an entry of
\* top_stocks.
C21_DenseRanks ==
    (result.op = "rank" /\ result.top_n >= 1) =>
        DenseRanked(result.res.top_stocks, AnalysesOfCall, result.top_n)

\* a ranking cut to one entry that leaves out a ticker with mentions and a
\* smaller total
C21_Witness ==
    /\ result.op = "rank"
    /\ result.top_n = 1
    /\ result.res.stocks_with_mentions = 2
    /\ Len(result.res.top_stocks) = 1
    /\ result.res.top_stocks[1].rank = 1
    /\ \E i \in 1..Len(TickersOf(result.tickers)) :
          /\ TickersOf(result.tickers)[i] # result.res.top_stocks[1].ticker
          /\ AnalysisOf(TickersOf(result.tickers)[i]).total_mentions > 0
          /\ AnalysisOf(TickersOf(result.tickers)[i]).total_popularity_score
                 < result.res.top_stocks[1].total_popularity_score

\* a ranking that top_n does not cut: two entries, with ranks 1 and 2
C21_WitnessAll ==
    /\ result.op = "rank"
    /\ result.top_n = 2
    /\ Len(result.res.top_stocks) = 2
    /\ result.res.top_stocks[2].rank = 2

\* the summary is the one of the entries of top: the two sums, the mean of
\* the mentions as a fraction and the ticker of the first entry
SummaryOver(stats, top) ==
    IF top = <<>> THEN stats = <<>>
    ELSE /\ stats.total_mentions_all_stocks = SumOf(top, "total_mentions")
         /\ stats.total_popularity_score_all_stocks = SumOf(top, "total_popularity_score")
         /\ stats.average_mentions_per_stock.num * Len(top)
                = SumOf(top, "total_mentions") * stats.average_mentions_per_stock.den
         /\ stats.average_mentions_per_stock.den > 0
         /\ stats.most_discussed_stock = top[1].ticker

\* C22: Summary statistics cover the truncated top-N only.
\* total_mentions_all_stocks and total_popularity_score_all_stocks are the
\* sums over the entries of top_stocks, average_mentions_per_stock is that
\* mention sum divided by the number of entries of top_stocks,
\* most_discussed_stock is the rank-1 entry, and summary_stats is empty when
\* top_stocks is empty.
C22_SummaryOverTopN ==
    result.op = "rank" =>
        /\ SummaryOver(result.res.summary_stats, result.res.top_stocks)
        /\ result.res.top_stocks # <<>> => result.res.top_stocks[1].rank = 1

\* a ranking cut to one entry whose summary leaves out the mentions of the
\* ticker that was cut off
C22_Witness ==
    /\ result.op = "rank"
    /\ result.top_n = 1
    /\ result.res.stocks_with_mentions = 2
    /\ Len(result.res.top_stocks) = 1
    /\ result.res.summary_stats.total_mentions_all_stocks
           = result.res.top_stocks[1].total_mentions
    /\ \E i \in 1..Len(TickersOf(result.tickers)) :
          /\ TickersOf(result.tickers)[i] # result.res.top_stocks[1].ticker
          /\ AnalysisOf(TickersOf(result.tickers)[i]).total_mentions > 0

\* a ranking with mentions and top_n = 0: no entry and the empty summary
C22_WitnessEmpty ==
    /\ result.op = "rank"
    /\ result.res.stocks_with_mentions > 0
    /\ result.res.top_stocks = <<>>
    /\ result.res.summary_stats = <<>>

\* the five buckets of the trend label
TrendBucket(mentions) ==
    IF mentions = 0 THEN "no discussion"
    ELSE IF mentions \in 1..4 THEN "light discussion"
    ELSE IF mentions \in 5..19 THEN "moderate discussion"
    ELSE IF mentions \in 20..49 THEN "active discussion"
    ELSE "hot discussion"

TrendLabels ==
    {"light discussion", "moderate discussion", "active discussion", "hot discussion"}

\* the records the ranking of the recorded call counts for a ticker
SurvivorsOf(ticker) ==
    AnalyzeLoop([all_relevant_posts |-> <<>>, subreddit_breakdown |-> <<>>], disk,
                SubredditsOf(result.subreddits), generate_stock_keywords(ticker),
                CutoffOf(result.days_back), result.min_relevance, NowTime).all_relevant_posts

\* the mentions of a list of counted records that are of a community
MentionsIn(posts, name) == Cardinality({i \in 1..Len(posts) : posts[i].subreddit = name})

\* name is a community of the list with the greatest mention count
MostMentioned(name, posts, subreddits) ==
    /\ name \in Range(subreddits)
    /\ \A c \in Range(subreddits) : MentionsIn(posts, c) <= MentionsIn(posts, name)

\* the labels alone: the label given to an analysis is the one of the bucket
\* of its total_mentions, whatever its other fields are, and every entry of a
\* ranking has the label of its mentions, which is none of "no discussion"
C23_LabelsOnly ==
    /\ result.op = "trend" => result.res = TrendBucket(result.analysis.total_mentions)
    /\ result.op = "rank" =>
          \A i \in 1..Len(result.res.top_stocks) :
              /\ result.res.top_stocks[i].trend_description
                     = TrendBucket(result.res.top_stocks[i].total_mentions)
              /\ result.res.top_stocks[i].trend_description \in TrendLabels

\* C23: Trend label buckets.  The trend label of an analysis is a function of
\* total_mentions alone with exactly five buckets (0, 1 to 4, 5 to 19, 20 to
\* 49, 50 and above); every entry of a ranking carries one of the four labels
\* that are not the label of 0, and its top_subreddit is a community with the
\* greatest mention count for that ticker.
C23_TrendLabelBuckets ==
    /\ C23_LabelsOnly
    /\ result.op = "rank" =>
          \A i \in 1..Len(result.res.top_stocks) :
              MostMentioned(result.res.top_stocks[i].top_subreddit,
                            SurvivorsOf(result.res.top_stocks[i].ticker),
                            SubredditsOf(result.subreddits))

\* ---------------------------------------------------------------------------
\* Two processes in save_posts_to_jsonl for the same file.  The call takes no
\* lock: a process reads the file and merges its batch in memory, then opens
\* the file for writing, which truncates it, and writes its lines, which reach
\* the file when the with block closes it.
\* ---------------------------------------------------------------------------

\* the batches of the two processes
NewPost(id) == [id |-> id, score |-> 1, url |-> "u1"]
WriterBatches ==
    {<<>>,
     <<[id |-> "p1", score |-> 1, url |-> "u2"]>>,
     <<[id |-> "p1", score |-> 2, url |-> "u2"]>>,
     <<NewPost("p2")>>,
     <<NewPost("p3")>>,
     <<NewPost("p2"), NewPost("p3")>>,
     <<NewPost("p3"), [id |-> "p1", score |-> 1, url |-> "u2"]>>}

\* what the file holds before the first of the calls
WriterFiles ==
    {Absent,
     FileOf(<<ObjLine(OldPost("p1", 1))>>),
     FileOf(<<ObjLine(OldPost("p1", 1)), ObjLine(OldPost("p2", 1))>>)}

WritersInit ==
    /\ \E f \in WriterFiles : disk = [c \in Communities |-> IF c = StorePath THEN f ELSE Absent]
    /\ clock = 1
    /\ last = NoCall
    /\ scored = [op |-> "none"]
    /\ result = [op |-> "none"]
    /\ run = NoRun
    /\ news = NoNews
    /\ writers = NoWriters

\* the length of a line on disk, in units: one for the line and one for each
\* field of its object
LineSize(l) == IF l.kind = "obj" THEN 1 + Cardinality(DOMAIN l.rec) ELSE 1

RECURSIVE SizeOf(_)
SizeOf(lines) == IF lines = <<>> THEN 0 ELSE LineSize(Head(lines)) + SizeOf(Tail(lines))

\* what is left of the lines of a file behind its first size units: a line
\* that begins before that point and ends after it leaves its end, which is no
\* JSON
RECURSIVE Behind(_, _)
Behind(lines, size) ==
    IF lines = <<>> THEN <<>>
    ELSE IF size <= 0 THEN lines
    ELSE IF LineSize(Head(lines)) <= size THEN Behind(Tail(lines), size - LineSize(Head(lines)))
    ELSE <<BadLine>> \o Tail(lines)

\* the file after a process wrote lines from the start of the file it opened:
\* the write does not shorten a file that another process made longer since
Written(f, lines) == FileOf(lines \o Behind(f.lines, SizeOf(lines)))

\* lines 258-327: the process reads the file and merges its batch in memory
WriterLoad(w) ==
    /\ writers[w].pc = "idle"
    /\ \E posts \in WriterBatches :
         LET m == MergePosts(disk[StorePath], posts, clock) IN
         writers' = [writers EXCEPT ![w] =
                        [pc |-> "loaded", batch |-> posts, before |-> disk[StorePath],
                         existing |-> m.existing, new_posts |-> m.new_posts,
                         updated_posts |-> m.updated_posts,
                         skipped_posts |-> m.skipped_posts,
                         loaded_at |-> clock, opened_at |-> 0, closed_at |-> 0,
                         ok |-> FALSE]]
    /\ clock' = clock + 1
    /\ UNCHANGED <<disk, last, scored, result, run, news>>

\* file_path.parent.mkdir raises: the call returns False and the file is as
\* it was
WriterMkdirError(w) ==
    /\ writers[w].pc = "idle"
    /\ writers' = [writers EXCEPT ![w] =
                      [pc |-> "done", batch |-> <<>>, before |-> disk[StorePath],
                       existing |-> <<>>, new_posts |-> 0, updated_posts |-> 0,
                       skipped_posts |-> 0,
                       loaded_at |-> clock, opened_at |-> 0, closed_at |-> 0,
                       ok |-> FALSE]]
    /\ clock' = clock + 1
    /\ UNCHANGED <<disk, last, scored, result, run, news>>

\* (variant: the file is opened without being truncated)
WriterOpenKeepsFile(w) ==
    /\ writers[w].pc = "loaded"
    /\ writers' = [writers EXCEPT ![w].pc = "open", ![w].opened_at = clock]
    /\ clock' = clock + 1
    /\ UNCHANGED <<disk, last, scored, result, run, news>>

\* line 330: open(file_path, "w") truncates the file
WriterOpen(w) ==
    /\ writers[w].pc = "loaded"
    /\ disk' = [disk EXCEPT ![StorePath] = FileOf(<<>>)]
    /\ writers' = [writers EXCEPT ![w].pc = "open", ![w].opened_at = clock]
    /\ clock' = clock + 1
    /\ UNCHANGED <<last, scored, result, run, news>>

\* lines 331-341: the lines of existing_posts.values() are written and the
\* file is closed; the call returns True
WriterClose(w) ==
    /\ writers[w].pc = "open"
    /\ disk' = [disk EXCEPT ![StorePath] = Written(@, LinesOf(writers[w].existing))]
    /\ writers' = [writers EXCEPT ![w].pc = "done", ![w].closed_at = clock, ![w].ok = TRUE]
    /\ clock' = clock + 1
    /\ UNCHANGED <<last, scored, result, run, news>>

\* a write raises after k lines went out: the call returns False
WriterWriteError(w) ==
    /\ writers[w].pc = "open"
    /\ \E k \in 0..(Len(writers[w].existing) - 1) :
         disk' = [disk EXCEPT ![StorePath] =
                     Written(@, Prefix(LinesOf(writers[w].existing), k))]
    /\ writers' = [writers EXCEPT ![w].pc = "done", ![w].closed_at = clock]
    /\ clock' = clock + 1
    /\ UNCHANGED <<last, scored, result, run, news>>

Load == \E w \in Writers : WriterLoad(w)
LoadMkdirError == \E w \in Writers : WriterMkdirError(w)
Open == \E w \in Writers : WriterOpen(w)
Close == \E w \in Writers : WriterClose(w)
CloseWriteError == \E w \in Writers : WriterWriteError(w)

WritersNext ==
    \/ Load
    \/ LoadMkdirError
    \/ Open
    \/ Close
    \/ CloseWriteError

SpecWriters == WritersInit /\ [][WritersNext]_vars

(***************************************************************************)
(* Claims about the calls of the two processes                             *)
(***************************************************************************)
\* the process has read the file and merged its batch
HasLoaded(w) == writers[w].pc \in {"loaded", "open", "done"} /\ writers[w].loaded_at > 0

\* the two posts agree on the six fields the change detection names
SameVolatile(post, stored) ==
    \A f \in {"title", "selftext", "score", "ups", "num_comments", "upvote_ratio"} :
        Get(post, f) = Get(stored, f)

\* the positions of a batch whose record has the id of a record of the file,
\* is the only one of the batch with that id, and agrees with the stored
\* record on the six fields
UnchangedIn(batch, f) ==
    {i \in 1..Len(batch) :
        /\ Has(batch[i], "id")
        /\ batch[i]["id"] \in IdsOf(f)
        /\ \A j \in 1..Len(batch) : (Has(batch[j], "id") /\ batch[j]["id"] = batch[i]["id"]) => j = i
        /\ SameVolatile(batch[i], StoredAt(LoadExisting(f), batch[i]["id"]))}

\* the call that ran alone and returned True
RanAlone(w) ==
    /\ writers[w].pc = "done" /\ writers[w].ok
    /\ \A v \in Writers \ {w} : writers[v].pc = "idle"

\* C24: Change detection looks at the volatile fields only.  When an incoming
\* record has the id of a stored record and equal title, selftext, score, ups,
\* num_comments and upvote_ratio, the merge counts it as skipped and leaves
\* the stored record entirely unchanged (no last_updated stamp, no field
\* overwritten), even when other fields such as url differ: the record the
\* merge holds for the id is the stored one, a batch of distinct ids counts
\* exactly these records as skipped, and a call that ran alone leaves the
\* stored line in the file.
C24_VolatileFieldsOnly ==
    \A w \in Writers : HasLoaded(w) =>
        LET batch == writers[w].batch
            before == writers[w].before
        IN
        /\ \A i \in UnchangedIn(batch, before) :
              /\ StoredAt(writers[w].existing, batch[i]["id"])
                     = StoredAt(LoadExisting(before), batch[i]["id"])
              /\ writers[w].skipped_posts >= 1
              /\ RanAlone(w) =>
                    \E k \in 1..Len(disk[StorePath].lines) :
                        disk[StorePath].lines[k]
                            = ObjLine(StoredAt(LoadExisting(before), batch[i]["id"]))
        /\ DistinctIds(batch) =>
              writers[w].skipped_posts = Cardinality(UnchangedIn(batch, before))

\* a call that ran alone with a record whose url differs from the stored one
\* and whose six fields are the stored ones: one skipped, the stored url kept
C24_Witness ==
    \E w \in Writers :
        /\ RanAlone(w)
        /\ writers[w].skipped_posts = 1
        /\ \E i \in UnchangedIn(writers[w].batch, writers[w].before) :
              /\ writers[w].batch[i]["url"] = "u2"
              /\ StoredAt(LoadExisting(writers[w].before), writers[w].batch[i]["id"])["url"] = "u1"
              /\ StoredAt(LoadExisting(disk[StorePath]), writers[w].batch[i]["id"])["url"] = "u1"
              /\ ~Has(StoredAt(LoadExisting(disk[StorePath]), writers[w].batch[i]["id"]),
                      "last_updated")

\* the ids a call added to what it read
InsertedBy(w) == {writers[w].existing[i]["id"] : i \in 1..Len(writers[w].existing)}
                     \ IdsOf(writers[w].before)

\* both calls have returned True
BothDone(e, l) ==
    /\ e # l
    /\ writers[e].pc = "done" /\ writers[e].ok
    /\ writers[l].pc = "done" /\ writers[l].ok

\* both calls read the file before either opened it for writing, and l is the
\* one that wrote last
BothLoadedFirst(e, l) ==
    /\ BothDone(e, l)
    /\ writers[e].loaded_at < writers[l].opened_at
    /\ writers[l].loaded_at < writers[e].opened_at
    /\ writers[e].closed_at < writers[l].closed_at

\* the call l began after the call e had returned
OneAfterAnother(e, l) == BothDone(e, l) /\ writers[e].closed_at < writers[l].loaded_at

\* the file holds the view of l alone, and no id that e alone inserted
OnlyViewOf(e, l) ==
    /\ disk[StorePath] = FileOf(LinesOf(writers[l].existing))
    /\ \A id \in InsertedBy(e) \ InsertedBy(l) : id \notin IdsOf(disk[StorePath])

\* merges that ran one after another lose no inserted record
Serialized ==
    \A e, l \in Writers : OneAfterAnother(e, l) =>
        (InsertedBy(e) \cup InsertedBy(l)) \subseteq IdsOf(disk[StorePath])

C30_WitnessSerial ==
    \E e, l \in Writers :
        /\ OneAfterAnother(e, l)
        /\ InsertedBy(e) # {} /\ InsertedBy(l) # {} /\ InsertedBy(e) # InsertedBy(l)
        /\ (InsertedBy(e) \cup InsertedBy(l)) \subseteq IdsOf(disk[StorePath])

\* ---------------------------------------------------------------------------
\* fetch_top_from_category: the posts of one date out of the collection files
\* of a category, the most upvoted of each file first
\* ---------------------------------------------------------------------------
MaxLimit == 3      \* max_limit given to fetch_top_from_category

\* datetime.utcfromtimestamp(created_utc).strftime("%Y-%m-%d"): the date is
\* the number of the day since the epoch, which the text of the date names
DateOf(created_utc) == created_utc \div SecondsPerDay

\* the search terms of a query: the names of ticker_to_company[query], split
\* at " OR " when the text has "OR" in it, and the query itself
SearchTerms(query) ==
    (IF Contains(ticker_to_company[query], <<"O", "R">>)
     THEN Split(ticker_to_company[query], OrSeparator)
     ELSE <<ticker_to_company[query]>>) \o <<query>>

\* re.search(term, text, re.IGNORECASE) for a term without special characters
SearchIgnoreCase(term, text) == Contains(Lower(text), Lower(term))

\* the test of a line of a company category against the query
FoundTerm(parsed_line, terms) ==
    \E i \in 1..Len(terms) :
        \/ SearchIgnoreCase(terms[i], parsed_line["title"])
        \/ SearchIgnoreCase(terms[i], parsed_line["selftext"])

\* "company" in category and query
QueryApplies(category, query) ==
    Contains(category, <<"c", "o", "m", "p", "a", "n", "y">>) /\ query # NoneText

\* the post made of a line
TopPost(parsed_line) ==
    [title |-> parsed_line["title"], content |-> parsed_line["selftext"],
     url |-> parsed_line["url"], upvotes |-> parsed_line["ups"],
     posted_date |-> DateOf(parsed_line["created_utc"])]

\* the loop over the lines of one file; json.loads of a line that is no JSON
\* and parsed_line["created_utc"] of a line that is no object raise, and
\* nothing in the function catches it
RECURSIVE SelectLines(_, _, _, _, _)
SelectLines(lines, category, date, query, found) ==
    IF lines = <<>> THEN [raised |-> FALSE, posts |-> found]
    ELSE IF Head(lines).kind # "obj" THEN [raised |-> TRUE, posts |-> <<>>]
    ELSE IF DateOf(Head(lines).rec["created_utc"]) # date
    THEN SelectLines(Tail(lines), category, date, query, found)
    ELSE IF QueryApplies(category[1], query) /\ ~FoundTerm(Head(lines).rec, SearchTerms(query))
    THEN SelectLines(Tail(lines), category, date, query, found)
    ELSE SelectLines(Tail(lines), category, date, query, Append(found, TopPost(Head(lines).rec)))

\* limit_per_subreddit
LimitPerSubreddit(max_limit, jsonl_files) ==
    IF max_limit < Len(jsonl_files) THEN 1 ELSE max_limit \div Len(jsonl_files)

\* the body of the loop over the files after the lines of a file were read:
\* sorted by upvotes, the first limit_per_subreddit posts are taken
TakeTop(all_content, selected, limit_per_subreddit) ==
    IF all_content.raised \/ selected.raised THEN [raised |-> TRUE, posts |-> <<>>]
    ELSE [raised |-> FALSE,
          posts |-> all_content.posts
                        \o Slice(SortDesc(selected.posts, "upvotes"), limit_per_subreddit)]

\* the loop over os.listdir of the category directory, in the order of the
\* listing
RECURSIVE FetchLoop(_, _, _, _, _, _, _)
FetchLoop(all_content, files, listing, category, date, query, limit_per_subreddit) ==
    IF listing = <<>> THEN all_content
    ELSE FetchLoop(TakeTop(all_content,
                           SelectLines(files[FilePath(category[2], Head(listing))].lines,
                                       category, date, query, <<>>),
                           limit_per_subreddit),
                   files, Tail(listing), category, date, query, limit_per_subreddit)

\* fetch_top_from_category; category is the text of the name and the name,
\* listing the .jsonl files of its directory as os.listdir gives them
fetch_top_from_category(files, listing, category, date, max_limit, query) ==
    IF listing = <<>> THEN [raised |-> FALSE, posts |-> <<>>]
    ELSE FetchLoop([raised |-> FALSE, posts |-> <<>>], files, listing, category, date, query,
                   LimitPerSubreddit(max_limit, listing))

\* the posts of the files: of two days, with ties in the upvotes
FetchDay == DateOf(NowTime) - 1
FilePost(url, title, ups, created_utc) ==
    [id |-> url, title |-> title, selftext |-> <<>>, url |-> url, ups |-> ups,
     created_utc |-> created_utc]

FileDayA ==
    FileOf(<<ObjLine(FilePost("a1", TitleVisa, 3, FetchDay * SecondsPerDay)),
             ObjLine(FilePost("a2", TitleXUp, 5, FetchDay * SecondsPerDay + 1)),
             ObjLine(FilePost("a3", TitleXUp, 9, (FetchDay + 1) * SecondsPerDay)),
             ObjLine(FilePost("a4", TitleNews, 5, (FetchDay + 1) * SecondsPerDay - 1))>>)
FileDayB ==
    FileOf(<<ObjLine(FilePost("b1", TitleVisa, 2, FetchDay * SecondsPerDay)),
             ObjLine(FilePost("b2", TitleBoth, 4, FetchDay * SecondsPerDay))>>)
FileDayC ==
    FileOf(<<ObjLine(FilePost("c1", TitleVisa, 4, FetchDay * SecondsPerDay)),
             ObjLine(FilePost("c2", TitleVisa, 1, FetchDay * SecondsPerDay)),
             ObjLine(FilePost("c3", TitleBoth, 4, FetchDay * SecondsPerDay))>>)
FileDayBad ==
    FileOf(<<ObjLine(FilePost("d1", TitleVisa, 2, FetchDay * SecondsPerDay)), BadLine>>)

FetchDisks ==
    {[p \in DownloadPaths |->
         IF p = FilePath("company_news", "stocks") THEN s
         ELSE IF p = FilePath("company_news", "investing") THEN i
         ELSE IF p = FilePath("global_news", "worldnews") THEN w
         ELSE Absent] :
       s \in {Absent, FileDayA, FileDayB},
       i \in {Absent, FileOf(<<>>), FileDayC, FileDayBad},
       w \in {Absent, FileDayA}}

\* the categories of a call: the text of the name, and the name
FetchCategories ==
    {<<<<"c", "o", "m", "p", "a", "n", "y", "_", "n", "e", "w", "s">>, "company_news">>,
     <<<<"g", "l", "o", "b", "a", "l", "_", "n", "e", "w", "s">>, "global_news">>,
     <<<<"c", "r", "y", "p", "t", "o", "_", "n", "e", "w", "s">>, "crypto_news">>}

\* the subreddits of a category whose file is in its directory
RECURSIVE ExistingIn(_, _)
ExistingIn(files, paths) ==
    IF paths = <<>> THEN <<>>
    ELSE IF files[Head(paths)].exists
         THEN <<Head(paths)[2]>> \o ExistingIn(files, Tail(paths))
         ELSE ExistingIn(files, Tail(paths))

Listings(files, name) ==
    Perms(ExistingIn(files, [k \in 1..Len(ConfiguredSubreddits(name)) |->
                                FilePath(name, ConfiguredSubreddits(name)[k])]))

FetchInit ==
    /\ disk \in FetchDisks
    /\ clock = 1
    /\ last = NoCall
    /\ scored = [op |-> "none"]
    /\ result = [op |-> "none"]
    /\ run = NoRun
    /\ news = NoNews
    /\ writers = NoWriters

FetchTopCall ==
    /\ result.op = "none"
    /\ \E category \in FetchCategories, date \in {FetchDay, FetchDay + 1},
          max_limit \in 0..MaxLimit, query \in {NoneText, TickerV, TickerX} :
         \E listing \in Listings(disk, category[2]) :
             result' = [op |-> "fetch_top", category |-> category, date |-> date,
                        max_limit |-> max_limit, query |-> query, listing |-> listing,
                        res |-> fetch_top_from_category(disk, listing, category, date,
                                                        max_limit, query)]
    /\ UNCHANGED <<disk, clock, last, scored, run, news, writers>>

FetchNext == FetchTopCall

SpecFetch == FetchInit /\ [][FetchNext]_vars

(***************************************************************************)
(* Claims about fetch_top_from_category                                    *)
(***************************************************************************)
\* the lines of a file of the recorded call that hold a post of the date
\* which passes the test against the query, when the call has one to apply
Candidates(f) ==
    {i \in 1..Len(f.lines) :
        /\ f.lines[i].kind = "obj"
        /\ DateOf(f.lines[i].rec["created_utc"]) = result.date
        /\ QueryApplies(result.category[1], result.query)
               => FoundTerm(f.lines[i].rec, SearchTerms(result.query))}

\* the candidates of a file that are among the returned posts
Taken(f, posts) ==
    {i \in Candidates(f) : \E k \in 1..Len(posts) : posts[k].url = f.lines[i].rec["url"]}

FileOfListing(k) == disk[FilePath(result.category[2], result.listing[k])]

\* every returned post is a candidate of a file of the category, and of each
\* file with candidates the returned ones are those with the most upvotes
C25_TopOfEachFile ==
    (result.op = "fetch_top" /\ result.max_limit >= 1 /\ ~result.res.raised) =>
        /\ \A k \in 1..Len(result.res.posts) :
              \E n \in 1..Len(result.listing) :
                  \E i \in Candidates(FileOfListing(n)) :
                      result.res.posts[k] = TopPost(FileOfListing(n).lines[i].rec)
        /\ \A n \in 1..Len(result.listing) :
              /\ Candidates(FileOfListing(n)) # {} =>
                    Taken(FileOfListing(n), result.res.posts) # {}
              /\ \A i \in Candidates(FileOfListing(n)) \ Taken(FileOfListing(n), result.res.posts) :
                    \A j \in Taken(FileOfListing(n), result.res.posts) :
                        FileOfListing(n).lines[i].rec["ups"] <= FileOfListing(n).lines[j].rec["ups"]

\* C25: fetch_top_from_category returns at most max_limit posts in total for
\* every max_limit >= 1 and every number of community files in the category,
\* and from each community file it takes the posts of the requested date with
\* the highest upvotes.
C25_FetchTopBounded ==
    /\ (result.op = "fetch_top" /\ result.max_limit >= 1 /\ ~result.res.raised) =>
          Len(result.res.posts) <= result.max_limit
    /\ C25_TopOfEachFile

(***************************************************************************)
(* Claims about the breakdown of an analysis                               *)
(***************************************************************************)
\* C26: Breakdown consistency.  In every result of analyze_stock_popularity,
\* total_mentions equals the sum of the mentions of the entries of
\* subreddit_breakdown and total_popularity_score equals the sum of their
\* popularity_score, also when the scan of a community file is cut short by
\* an error.
C26_BreakdownConsistency ==
    result.op = "analyze" =>
        /\ result.res.total_mentions = SumOf(result.res.subreddit_breakdown, "mentions")
        /\ result.res.total_popularity_score
               = SumOf(result.res.subreddit_breakdown, "popularity_score")

(***************************************************************************)
(* Claims about the time decay of posts of any age                         *)
(***************************************************************************)
\* C27: Time decay stays in range for every timestamp.  For every record,
\* whatever its created_utc (a timestamp later than the current time
\* included), calculate_post_popularity_score completes without error with
\* time_decay in [0.1, 1.0], so that a record with non-negative ups,
\* num_comments, score and upvote_ratio and a weight in (0, 1] gets a
\* non-negative popularity not above engagement + quality.
C27_TimeDecayInRange ==
    scored.op = "popularity" =>
        /\ ~scored.raised
        /\ scored.time_decay.den > 0
        /\ 10 * scored.time_decay.num >= scored.time_decay.den
        /\ scored.time_decay.num <= scored.time_decay.den
        /\ scored.den = 200 * scored.time_decay.den
        /\ scored.num >= 0
        /\ scored.num <= EngagementPlusQuality(scored.post) * 10 * scored.time_decay.den

(***************************************************************************)
(* Claims about a fetch that brings nothing                                *)
(***************************************************************************)
\* the files whose community gave no record: the listing was empty or the
\* fetch failed
EmptyFetches == {p \in DownloadPaths : run.outcome[p] \in {"empty", "fetch_failed"}}

\* C28: An empty fetch leaves the collection untouched.  When
\* download_subreddit_data yields zero records for a community (listing empty
\* or fetch failed), download_category_data neither creates nor rewrites that
\* community's file: the file is exactly what it was before the run, the
\* community is not counted as a success, and a category whose communities
\* all gave nothing is False in the results.
C28_EmptyFetchLeavesFile ==
    run.pc \notin {"none"} =>
        /\ \A p \in EmptyFetches : disk[p] = run.before[p]
        /\ run.pc = "subreddit" =>
              run.success_count
                  <= Cardinality(Visited(run.category) \ EmptyFetches)
        /\ \A i \in 1..Len(run.results) :
              (Visited(run.results[i].category) # {}
               /\ Visited(run.results[i].category) \subseteq EmptyFetches)
                  => ~run.results[i].success

\* a category returned after the listing of one community was empty, which
\* left the file of an earlier run as it was, and the fetch of the other
\* failed, which created no file
C28_Witness ==
    /\ run.pc \notin {"none"}
    /\ \E p, q \in EmptyFetches :
          /\ p[1] = q[1]
          /\ run.outcome[p] = "empty" /\ run.before[p].exists /\ disk[p] = run.before[p]
          /\ run.outcome[q] = "fetch_failed" /\ ~run.before[q].exists /\ ~disk[q].exists
          /\ \E i \in 1..Len(run.results) :
                run.results[i].category = p[1] /\ ~run.results[i].success

\* ---------------------------------------------------------------------------
\* Claims about the pages the concurrent fetch returns
\* ---------------------------------------------------------------------------

\* a call of getNewsDataConcurrent has returned its list
ConcurrentReturned == Concurrent /\ news.pc = "done"

\* the pages of the pool that were fetched successfully with results
FetchedWithResults == {r \in news.fetched : r.success /\ r.results # <<>>}

\* the pages that were fetched successfully and show no next link
PagesWithoutNext ==
    {r.page : r \in {f \in news.fetched \cup {news.first_page_result} : f.success /\ ~f.has_next}}

\* the first page that has no next link; MaxPages when every page has one
FirstPageWithoutNext ==
    IF PagesWithoutNext = {} THEN MaxPages
    ELSE CHOOSE p \in PagesWithoutNext : \A q \in PagesWithoutNext : p <= q

\* the items of the result r are in the list, as many as were parsed
ResultsIn(r, list) ==
    Cardinality({i \in 1..Len(list) : list[i] = r.page}) = Len(r.results)

\* the pages of the pool whose results the collecting loop took before it
\* was left are in the returned list, after those of page 0
CollectedPagesReturned ==
    ConcurrentReturned =>
        /\ news.first_page_result.success => ResultsIn(news.first_page_result, news.returned)
        /\ \A r \in FetchedWithResults :
              (r.page \in news.yielded /\ r \notin news.completed) => ResultsIn(r, news.returned)

\* C29: no page is lost to completion order. When getNewsDataConcurrent has
\* returned, its list holds the results of page 0 and of every later page
\* that was fetched successfully with results and lies at or before the
\* first page that has no next link, whatever the order in which the
\* fetches of the pool finished.
C29_NoPageLostToCompletionOrder ==
    ConcurrentReturned =>
        /\ news.first_page_result.success => ResultsIn(news.first_page_result, news.returned)
        /\ \A r \in FetchedWithResults :
              r.page <= FirstPageWithoutNext => ResultsIn(r, news.returned)

====
